---- MODULE Spec2Model ----
(***************************************************************************)
(* Model of the market-go SEO page-analysis engine                         *)
(* (app/seo/seo_analyzer.py, app/seo/views.py, app/seo/serializers.py) and *)
(* of the sentiment app (app/sentiment_api).                               *)
(*                                                                         *)
(* The specifications share the variables of this module:                  *)
(*   Spec       one GET request to SEOView: fetch_page, the analyzers of   *)
(*              analyze_url in their order, calculate_seo_score and the    *)
(*              response serializer;                                       *)
(*   SpecTwice  analyze_url run twice on the same site;                    *)
(*   SpecAnalyzers  one analyzer applied to bounded documents;             *)
(*   SpecScore  calculate_seo_score applied to bounded reports;            *)
(*   SpecLinks  analyze_links, one check_link call per step;               *)
(*   SpecSentences      split_into_sentences and process_comment;          *)
(*   SpecSentimentView  one POST request to SentimentAnalysisView;         *)
(*   SpecRateLimiter    the acquire() calls on one RateLimiter.            *)
(*                                                                         *)
(* Representation of Python values:                                        *)
(*   - a Check Result is a record with status, description, code_snippet   *)
(*     and how_to_fix; code_snippet is [kind, items] with kind "null"      *)
(*     (None), "list" (a list of str) or "str" (a bare str, items = <<s>>);*)
(*   - how_to_fix None is the string "None";                               *)
(*   - an analyzer call yields [exc, value]: exc = "" when it returned     *)
(*     value, otherwise the name of the exception it raised;               *)
(*   - the float accumulated by warnings += 0.5 is kept in halves.       *)
(***************************************************************************)
EXTENDS Integers, Sequences, FiniteSets, TLC

VARIABLES
    site,        \* the requested url, the page behind it and the server's answers
    pc,          \* position of the request handler
    fetched,     \* what fetch_page returned: [html, final_url]
    checks,      \* analyze_url's checks dict: sequence of [name, result], insertion order
    ran,         \* names of the analyzers called so far, in call order
    reqs,        \* outbound HTTP requests issued so far
    raised,      \* "" or the exception that left analyze_url
    res,         \* the envelope analyze_url returned
    http,        \* the HTTP response of SEOView.get
    data,        \* SpecScore: the report handed to calculate_seo_score
    summary,     \* SpecScore: what calculate_seo_score returned
    lk,          \* SpecLinks: the local state of one analyze_links call
    sa           \* the sentiment app: the state of the operation a sentiment specification runs

vars == <<site, pc, fetched, checks, ran, reqs, raised, res, http, data, summary, lk, sa>>

(***************************************************************************)
(* Bounds of the model.                                                    *)
(***************************************************************************)
MaxDeviations == 1      \* features in which a site differs from BaseSite
MaxChecks == 10         \* entries of a report handed to calculate_seo_score
MaxAnchors == 25        \* <a> tags of a page handed to analyze_links
MaxHeadings == 4        \* h1-h6 elements of a document handed to analyze_heading_structure
MaxMetas == 2           \* candidate description tags of a document handed to analyze_meta
MaxImages == 3          \* <img> elements of a document handed to analyze_images
MaxRepeated == 5        \* copies of one <img> in a document of equal images
MaxDuplicated == 4      \* alt texts used twice in a document of paired images
MaxIframes == 5         \* <iframe> elements of a document handed to check_iframe_usage
MaxThreshold == 4       \* threshold argument of check_iframe_usage
MaxSeparators == 2      \* occurrences of one separator in a title
MaxFailures == 2
MaxLines == 3
MaxTextLen == 7
MaxComments == 2
MaxRequests == 2
MaxWindow == 3
MaxClock == 6
MaxCalls == 4        \* link probes of one scan whose HEAD does not succeed

(***************************************************************************)
(* Program constants.                                                      *)
(***************************************************************************)
MIN_LENGTH == 50
MAX_LENGTH == 160
check_limit_cap == 20
REQUEST_TIMEOUT == 10

Statuses == {"passed", "warning", "failed"}

(***************************************************************************)
(* Generic helpers.                                                        *)
(***************************************************************************)
Min(a, b) == IF a <= b THEN a ELSE b

Range(s) == {s[i] : i \in 1..Len(s)}

CountIf(s, P(_)) == Cardinality({i \in DOMAIN s : P(s[i])})

\* the elements of s that satisfy P, in order
Filter(s, P(_)) == SelectSeq(s, P)

\* s[:n]
Take(s, n) == SubSeq(s, 1, Min(n, Len(s)))

\* s[:n] + (["..."] if len(s) > n else [])
TakeMore(s, n, marker) == Take(s, n) \o (IF Len(s) > n THEN <<marker>> ELSE <<>>)

Null == [kind |-> "null", items |-> <<>>]
List(items) == [kind |-> "list", items |-> items]
BareStr(s) == [kind |-> "str", items |-> <<s>>]

Result(st, descr, snippet, fix) ==
    [status |-> st, description |-> descr, code_snippet |-> snippet, how_to_fix |-> fix]

NoValue == Result("", "", Null, "None")
Ret(r) == [exc |-> "", value |-> r]
Raise(e) == [exc |-> e, value |-> NoValue]

(***************************************************************************)
(* fetch_page.  url.kind is "missing" (no url parameter: None), "empty",   *)
(* "malformed" (no scheme, e.g. not-a-url: requests raises MissingSchema,  *)
(* a RequestException, before anything is sent) or "absolute".  A request  *)
(* that is sent ends in a connection error, a timeout or a response;       *)
(* raise_for_status raises HTTPError for 400 <= status < 600.              *)
(* Returns [ok, html (its size), final_url, sent].                         *)
(***************************************************************************)
RaisesForStatus(status) == status >= 400 /\ status < 600

NoPage == [bytes |-> 0, chars |-> 0]

\* fetch_page without its except clause taking effect: a request error is not
\* turned into (None, None, None)
fetch_page_unguarded(s) ==
    IF s.url.kind \in {"missing", "empty"}
    THEN [ok |-> FALSE, html |-> NoPage, final_url |-> s.url, sent |-> <<>>]
    ELSE [ok |-> TRUE, html |-> s.html, final_url |-> s.url,
          sent |-> <<[fn |-> "fetch_page", method |-> "GET", user_agent |-> TRUE,
                      timeout |-> REQUEST_TIMEOUT]>>]

fetch_page(s) ==
    IF s.url.kind \in {"missing", "empty"}
    THEN [ok |-> FALSE, html |-> NoPage, final_url |-> s.url, sent |-> <<>>]
    ELSE LET call == [fn |-> "fetch_page", method |-> "GET", user_agent |-> TRUE,
                      timeout |-> REQUEST_TIMEOUT]
         IN  IF s.url.kind = "malformed"
                \/ s.fetch.result # "response"
                \/ RaisesForStatus(s.fetch.status)
             THEN [ok |-> FALSE, html |-> NoPage, final_url |-> s.url, sent |-> <<call>>]
             ELSE [ok |-> TRUE, html |-> s.html, final_url |-> s.url, sent |-> <<call>>]

(***************************************************************************)
(* The analyzers.  Each takes the part of the document (or of the server's *)
(* behaviour) it reads and returns Ret(result) or Raise(exception).        *)
(***************************************************************************)

\* title = [present, len, dash, pipe]: len is len(title_tag.text.strip()),
\* dash and pipe count the occurrences of " - " and " | ".
\* check_title_tag with the length limits compared by <= and >=
check_title_tag_exclusive(title) ==
    IF ~title.present \/ title.len = 0
    THEN Ret(Result("failed", "No title tag found or title is empty.", Null,
                    "Add a descriptive title tag"))
    ELSE IF title.len <= 30
    THEN Ret(Result("warning", "Title tag is too short", List(<<"<title>">>),
                    "Expand your title"))
    ELSE IF title.len >= 60
    THEN Ret(Result("warning", "Title tag is too long", List(<<"<title>">>),
                    "Shorten your title"))
    ELSE IF title.dash > 1 \/ title.pipe > 1
    THEN Ret(Result("warning", "Title tag contains multiple separators", List(<<"<title>">>),
                    "Simplify your title structure"))
    ELSE Ret(Result("passed", "Title tag is well-optimized", List(<<"<title>">>),
                    "No changes needed."))

check_title_tag(title) ==
    IF ~title.present \/ title.len = 0
    THEN Ret(Result("failed", "No title tag found or title is empty.", Null,
                    "Add a descriptive title tag"))
    ELSE IF title.len < 30
    THEN Ret(Result("warning", "Title tag is too short", List(<<"<title>">>),
                    "Expand your title"))
    ELSE IF title.len > 60
    THEN Ret(Result("warning", "Title tag is too long", List(<<"<title>">>),
                    "Shorten your title"))
    ELSE IF title.dash > 1 \/ title.pipe > 1
    THEN Ret(Result("warning", "Title tag contains multiple separators", List(<<"<title>">>),
                    "Simplify your title structure"))
    ELSE Ret(Result("passed", "Title tag is well-optimized", List(<<"<title>">>),
                    "No changes needed."))

\* metas: the candidate description tags in document order, each
\* [sel, len]; len = -1 without a content attribute, 0 when content.strip()
\* is empty, otherwise len(' '.join(content.split())).
CANDIDATE_SELECTORS ==
    <<"name=description", "property=og:description", "property=description",
      "name=twitter:description">>

\* soup.find("meta", attrs=selector): the first tag of that selector, if any
FindMeta(metas, sel) ==
    LET hits == {i \in DOMAIN metas : metas[i].sel = sel}
    IN  IF hits = {} THEN 0 ELSE CHOOSE i \in hits : \A j \in hits : i <= j

\* the loop over CANDIDATE_SELECTORS: index of the selected tag, 0 for None
SelectMeta(metas) ==
    LET good == {k \in DOMAIN CANDIDATE_SELECTORS :
                    LET i == FindMeta(metas, CANDIDATE_SELECTORS[k])
                    IN  i # 0 /\ metas[i].len > 0}
    IN  IF good = {} THEN 0
        ELSE FindMeta(metas, CANDIDATE_SELECTORS[CHOOSE k \in good : \A j \in good : k <= j])

\* analyze_meta with the length limits compared by <= and >=
analyze_meta_exclusive(metas) ==
    LET m == SelectMeta(metas)
        snip(tags) == [i \in DOMAIN tags |-> "<meta>"]
    IN  IF m = 0
        THEN IF metas # <<>>
             THEN Ret(Result("warning", "Meta description tags found but none have a valid 'content' attribute.",
                             List(snip(Take(metas, 3))), "Ensure non-empty content"))
             ELSE Ret(Result("failed", "No meta description was found for your page.",
                             List(<<>>), "Add a meta description"))
        ELSE IF metas[m].len <= MIN_LENGTH
        THEN Ret(Result("warning", "Meta description is too short", List(<<"<meta>">>),
                        "Expand your meta description"))
        ELSE IF metas[m].len >= MAX_LENGTH
        THEN Ret(Result("warning", "Meta description is too long", List(<<"<meta>">>),
                        "Shorten your meta description"))
        ELSE Ret(Result("passed", "Meta description is present and optimal", List(<<"<meta>">>),
                        "No changes needed."))

analyze_meta(metas) ==
    LET m == SelectMeta(metas)
        snip(tags) == [i \in DOMAIN tags |-> "<meta>"]
    IN  IF m = 0
        THEN IF metas # <<>>
             THEN Ret(Result("warning", "Meta description tags found but none have a valid 'content' attribute.",
                             List(snip(Take(metas, 3))), "Ensure non-empty content"))
             ELSE Ret(Result("failed", "No meta description was found for your page.",
                             List(<<>>), "Add a meta description"))
        ELSE IF metas[m].len < MIN_LENGTH
        THEN Ret(Result("warning", "Meta description is too short", List(<<"<meta>">>),
                        "Expand your meta description"))
        ELSE IF metas[m].len > MAX_LENGTH
        THEN Ret(Result("warning", "Meta description is too long", List(<<"<meta>">>),
                        "Shorten your meta description"))
        ELSE Ret(Result("passed", "Meta description is present and optimal", List(<<"<meta>">>),
                        "No changes needed."))

\* headings: the levels (1..6) of the h1-h6 elements in document order
HeadingName(l) == <<"h1", "h2", "h3", "h4", "h5", "h6">>[l]

analyze_h1s(headings) ==
    LET count == CountIf(headings, LAMBDA l : l = 1)
        snippet == [i \in 1..count |-> "<h1>"]
    IN  IF count = 0
        THEN Ret(Result("failed", "No <h1> tag found on the page.", Null, "Include one <h1>"))
        ELSE IF count = 1
        THEN Ret(Result("passed", "One <h1> tag found. Ideal for SEO.", List(snippet),
                        "No changes needed."))
        ELSE Ret(Result("warning", "Several <h1> tags found.", List(snippet),
                        "Consolidate multiple <h1> tags"))

MaxOf(S) == CHOOSE x \in S : \A y \in S : y <= x

\* the loop without its `last_level != 0` test
out_of_order_from_zero(levels) ==
    \E i \in 1..Len(levels) : levels[i] - (IF i = 1 THEN 0 ELSE levels[i - 1]) > 1

\* the loop for level in numeric_levels with its break
out_of_order_of(levels) ==
    \E i \in 2..Len(levels) : levels[i] - levels[i - 1] > 1

missing_levels_of(levels) ==
    LET used == Range(levels)
        miss == {i \in 1..MaxOf(used) : i \notin used}
    IN  [k \in 1..Cardinality(miss) |->
            HeadingName(CHOOSE i \in miss : Cardinality({j \in miss : j < i}) = k - 1)]

\* max(used_levels) is evaluated before the emptiness test of the decision
\* logic: on an empty sequence it raises ValueError.
analyze_heading_structure(headings) ==
    IF Range(headings) = {}
    THEN Raise("ValueError")
    ELSE LET missing == missing_levels_of(headings)
             ooo == out_of_order_of(headings)
             order == [i \in DOMAIN headings |-> HeadingName(headings[i])]
         IN  IF ooo \/ missing # <<>>
             THEN Ret(Result("warning", "Heading tags are either out of order or have skipped levels.",
                             Null, "Ensure headings follow a logical structure")
                      @@ [heading_order |-> order, missing_levels |-> missing,
                          out_of_order |-> ooo])
             ELSE Ret(Result("passed", "Heading tags are well-structured and follow a logical hierarchy.",
                             Null, "No changes needed.")
                      @@ [heading_order |-> order, missing_levels |-> <<>>,
                          out_of_order |-> FALSE])

\* html = [bytes, chars]: len(html.encode('utf-8')) and len(html).
\* size_kb = bytes / 1024, so size_kb < 100 iff bytes < 100 * 1024.
analyze_html_size(html) ==
    IF html.bytes < 100 * 1024
    THEN Ret(Result("passed", "HTML size is optimal", List(<<"HTML Size">>), "No action needed."))
    ELSE IF html.bytes < 300 * 1024
    THEN Ret(Result("warning", "HTML size is moderately large", List(<<"HTML Size">>),
                    "Consider removing inline scripts/styles"))
    ELSE Ret(Result("failed", "HTML size is too large", List(<<"HTML Size">>), "Minify the HTML"))

\* soup_ok: soup is not None and has get_text
analyze_keywords(soup_ok) ==
    IF ~soup_ok
    THEN Ret(Result("failed", "Could not extract text from the provided HTML.", Null,
                    "Ensure valid BeautifulSoup object is passed.")
             @@ [common_keywords |-> <<>>])
    ELSE Ret(Result("passed", "A list of keywords that appear frequently in the text of your content.",
                    Null, "None")
             @@ [common_keywords |-> <<"(word, n)">>])

\* head: the document has a <head>; fav = [ms_tile, icons]: ms_tile is a
\* msapplication-TileImage meta with content, icons the favicon <link> tags
\* in the order the loop visits them, each [href, in_head].
check_favicon(head, fav) ==
    IF ~head
    THEN Ret(Result("warning", "No <head> section found in the HTML. Cannot properly check for favicon.",
                    Null, "Ensure your HTML includes a <head> section"))
    ELSE IF fav.ms_tile
    THEN Ret(Result("passed", "Favicon found via Microsoft meta tag.", List(<<"<meta>">>),
                    "No action needed."))
    ELSE LET withHref == {i \in DOMAIN fav.icons : fav.icons[i].href}
         IN  IF withHref = {}
             THEN Ret(Result("failed", "No favicon declared in the HTML.", Null,
                             "Add a <link rel=icon>"))
             ELSE LET first == CHOOSE i \in withHref : \A j \in withHref : i <= j
                  IN  IF ~fav.icons[first].in_head
                      THEN Ret(Result("warning", "Favicon found but not within the <head> section.",
                                      List(<<"<link>">>), "Move the <link> tag"))
                      ELSE Ret(Result("passed", "Favicon found and correctly declared in the <head> section.",
                                      List(<<"<link>">>), "No action needed."))

\* canonical = [present, href, in_head]; href is "none", "relative" or "absolute"
check_canonical(head, canonical) ==
    IF ~canonical.present \/ canonical.href = "none"
    THEN Ret(Result("failed", "No canonical URL tag found.", Null, "Add a canonical tag"))
    ELSE IF head /\ ~canonical.in_head
    THEN Ret(Result("warning", "Canonical tag found, but not inside the <head> section.",
                    List(<<"<link>">>), "Move your canonical tag"))
    ELSE IF canonical.href = "relative"
    THEN Ret(Result("warning", "Canonical tag uses a relative URL", List(<<"<link>">>),
                    "Use an absolute URL"))
    ELSE Ret(Result("passed", "Canonical URL is set correctly", List(<<"<link>">>),
                    "No action needed."))

\* robots_meta: the meta[name=robots|googlebot] tags; TRUE when the content
\* contains "noindex"
check_noindex(robots_meta) ==
    LET noindex == Filter(robots_meta, LAMBDA b : b)
    IN  IF noindex # <<>>
        THEN Ret(Result("failed", "The page contains meta tag(s) with a noindex directive",
                        List([i \in DOMAIN noindex |-> "<meta>"]), "Remove the noindex directive(s)"))
        ELSE IF Len(robots_meta) > 1
        THEN Ret(Result("warning", "Multiple meta robots or googlebot tags found",
                        List([i \in DOMAIN robots_meta |-> "<meta>"]), "Ensure you only include one meta tag"))
        ELSE Ret(Result("passed", "No 'noindex' directive found.", Null, "No action needed."))

\* viewport = [found, width_ok, scale_ok]; found is "none", "soup" (method 1
\* or 2) or "regex" (method 3, only tried when html_content is not empty)
check_viewport_meta(viewport, html) ==
    IF viewport.found = "regex" /\ html.chars > 0
    THEN IF viewport.width_ok /\ viewport.scale_ok
         THEN Ret(Result("passed", "The page contains a valid viewport meta tag (detected via regex).",
                         List(<<"<meta>">>), "No action needed."))
         ELSE Ret(Result("warning", "Viewport meta tag is present but may be misconfigured (detected via regex).",
                         List(<<"<meta>">>), "Ensure your tag looks like"))
    ELSE IF viewport.found = "soup"
    THEN IF viewport.width_ok /\ viewport.scale_ok
         THEN Ret(Result("passed", "The page contains a valid viewport meta tag",
                         List(<<"<meta>">>), "No action needed."))
         ELSE Ret(Result("warning", "Viewport meta tag is present but may be misconfigured",
                         List(<<"<meta>">>), "Ensure your tag looks like"))
    ELSE Ret(Result("failed", "No viewport meta tag found.", Null, "Add the following tag"))

\* js: the <script src> tags, each [minified, deferred, in_head]; css: the
\* stylesheet <link href> tags, each [minified]; styles: number of <style>
render_blocking_of(js, css) ==
    [i \in DOMAIN Filter(js, LAMBDA x : x.in_head /\ ~x.deferred) |-> "<script>"]
    \o [i \in DOMAIN css |-> "<link>"]

check_page_speed_indicators(js, css, styles, html) ==
    LET render_blocking == render_blocking_of(js, css)
        js_count == Len(js)
        deferred_scripts == CountIf(js, LAMBDA x : x.deferred)
        issues ==
            (IF html.chars > 100 * 1024 THEN 1 ELSE 0)
            + (IF styles > 3 THEN 1 ELSE 0)
            + (IF Len(render_blocking) > 3 THEN 1 ELSE 0)
            + (IF js_count > 15 THEN 1 ELSE 0)
            + (IF 2 * deferred_scripts < js_count /\ js_count > 5 THEN 1 ELSE 0)
    IN  IF issues = 0
        THEN Ret(Result("passed", "No significant page speed issues detected in the HTML structure.",
                        Null, "Continue monitoring page speed"))
        ELSE Ret(Result("warning", "Potential page speed issues detected",
                        List(TakeMore(render_blocking, 3, "...")), "- solutions"))

\* url.issues: how many of the seven structure flags the URL raises
check_url_structure(url) ==
    IF url.issues > 0
    THEN Ret(Result("warning", "URL structure has potential issues", List(<<"url">>), "- solutions"))
    ELSE Ret(Result("passed", "URL structure follows SEO best practices.", List(<<"url">>),
                    "No action needed."))

\* check_amp reporting the optional AMP link with a status of its own
check_amp_info(amp) ==
    IF amp
    THEN Ret(Result("passed", "AMP version of the page is linked using <link rel='amphtml'>.",
                    List(<<"<link>">>), "No action needed."))
    ELSE Ret(Result("info", "No AMP version found.", Null, "Create a valid AMP version"))

\* amp: a link[rel=amphtml] with an href exists
check_amp(amp) ==
    IF amp
    THEN Ret(Result("passed", "AMP version of the page is linked using <link rel='amphtml'>.",
                    List(<<"<link>">>), "No action needed."))
    ELSE Ret(Result("warning", "No AMP version found.", Null, "Create a valid AMP version"))

check_secure_connection(url) ==
    IF url.scheme = "https"
    THEN Ret(Result("passed", "The site uses HTTPS, ensuring secure communication.",
                    List(<<"Final URL">>), "No action needed."))
    ELSE Ret(Result("failed", "The site does not use HTTPS.", List(<<"Final URL">>),
                    "Enable HTTPS"))

(***************************************************************************)
(* Analyzers with an auxiliary request.  The answer is [result, ...] with  *)
(* result "response", or "ConnectionError" or "Timeout": the               *)
(* requests.RequestException the call raised.  The description of the      *)
(* except branch ends in str(e).                                           *)
(***************************************************************************)
RequestErrors == {"ConnectionError", "Timeout"}

ErrorDescription(prefix, e) ==
    CASE prefix = "robots" /\ e = "ConnectionError" ->
            "An error occurred while trying to access robots.txt: ConnectionError"
      [] prefix = "robots" /\ e = "Timeout" ->
            "An error occurred while trying to access robots.txt: Timeout"
      [] prefix = "redirect" /\ e = "ConnectionError" ->
            "Unable to perform HTTP to HTTPS redirect check due to an error: ConnectionError"
      [] prefix = "redirect" /\ e = "Timeout" ->
            "Unable to perform HTTP to HTTPS redirect check due to an error: Timeout"
      [] prefix = "404" /\ e = "ConnectionError" ->
            "Could not perform 404 page check due to an error: ConnectionError"
      [] prefix = "404" /\ e = "Timeout" ->
            "Could not perform 404 page check due to an error: Timeout"
      [] prefix = "compression" /\ e = "ConnectionError" ->
            "Could not perform compression check due to an error: ConnectionError"
      [] prefix = "compression" /\ e = "Timeout" ->
            "Could not perform compression check due to an error: Timeout"

\* redirect = [result, final_https]
check_http_redirect(redirect) ==
    IF redirect.result \in RequestErrors
    THEN Ret(Result("failed", ErrorDescription("redirect", redirect.result),
                    List(<<"Attempted HTTP URL">>), "Ensure your site is online"))
    ELSE IF redirect.final_https
    THEN Ret(Result("passed", "HTTP traffic is redirected to HTTPS", List(<<"Redirect chain">>),
                    "No action needed."))
    ELSE Ret(Result("failed", "HTTP traffic is not redirected to HTTPS.", List(<<"Final URL">>),
                    "Configure your server"))

\* notfound = [result, status, custom]; custom: is_custom_404(content)
check_404_page(notfound) ==
    IF notfound.result \in RequestErrors
    THEN Ret(Result("failed", ErrorDescription("404", notfound.result),
                    List(<<"Attempted URL">>), "Ensure your site is online"))
    ELSE IF notfound.status = 404
    THEN IF notfound.custom
         THEN Ret(Result("passed", "Custom 404 page is in place with appropriate messaging.",
                         List(<<"URL returned HTTP 404">>), "No action needed."))
         ELSE Ret(Result("warning", "Page returns 404 but content doesn't appear customized.",
                         List(<<"URL returned HTTP 404">>), "Design a user-friendly 404 page"))
    ELSE IF notfound.status = 200
    THEN Ret(Result("failed", "Invalid URL returned HTTP 200 instead of 404.",
                    List(<<"HTTP 200 returned">>), "Ensure the server returns HTTP 404"))
    ELSE Ret(Result("warning", "Unexpected HTTP status returned for an invalid URL.",
                    List(<<"HTTP status returned">>), "Make sure missing pages return HTTP 404"))

\* compression = [result, br, gzip]: "br" / "gzip" occurs in Content-Encoding
check_text_compression(compression) ==
    IF compression.result \in RequestErrors
    THEN Ret(Result("failed", ErrorDescription("compression", compression.result),
                    List(<<"Attempted URL">>), "Ensure the server is online"))
    ELSE IF compression.br
    THEN Ret(Result("passed", "Server supports Brotli compression", List(<<"Content-Encoding">>),
                    "No action needed."))
    ELSE IF compression.gzip
    THEN Ret(Result("passed", "Server supports Gzip compression", List(<<"Content-Encoding">>),
                    "No action needed."))
    ELSE Ret(Result("failed", "No Brotli or Gzip compression detected.", List(<<"Content-Encoding">>),
                    "Enable Gzip or Brotli compression"))

(***************************************************************************)
(* Media elements.  media: the <img> and <iframe> elements in document     *)
(* order, each [tag, alt, lazy]; alt is the alt attribute as a sequence of *)
(* characters, NoAlt when the attribute is absent; lazy: the loading       *)
(* attribute, stripped and lower-cased, equals "lazy".                     *)
(***************************************************************************)
NoAlt == <<"None">>

IsSpace(c) == c = " "

Lower(c) ==
    CASE c = "A" -> "a" [] c = "I" -> "i" [] c = "P" -> "p" [] c = "X" -> "x"
      [] c = "T" -> "t"
      [] OTHER -> c

RECURSIVE LStrip(_)
LStrip(s) == IF s # <<>> /\ IsSpace(Head(s)) THEN LStrip(Tail(s)) ELSE s

RECURSIVE RStrip(_)
RStrip(s) ==
    IF s # <<>> /\ IsSpace(s[Len(s)]) THEN RStrip(SubSeq(s, 1, Len(s) - 1)) ELSE s

\* str.strip()
Strip(s) == RStrip(LStrip(s))

\* str.lower()
LowerStr(s) == [i \in DOMAIN s |-> Lower(s[i])]

redundant_words ==
    {<<"i", "m", "a", "g", "e">>, <<"p", "h", "o", "t", "o">>, <<"p", "i", "c">>,
     <<"p", "i", "c", "t", "u", "r", "e">>, <<"i", "m", "g">>}

non_descriptive == {<<"a">>, <<"-">>, <<"x">>}

Imgs(media) == Filter(media, LAMBDA el : el.tag = "img")
Iframes(media) == Filter(media, LAMBDA el : el.tag = "iframe")

\* `not alt or alt.strip() == ""`
alt_missing(alt) == alt = NoAlt \/ alt = <<>> \/ Strip(alt) = <<>>

\* alt.strip() without .lower()
alt_clean_cased(alt) == Strip(alt)

alt_clean(alt) == LowerStr(Strip(alt))

missing_alt_of(images) == Filter(images, LAMBDA img : alt_missing(img.alt))

redundant_alt_of(images) ==
    Filter(images, LAMBDA img : ~alt_missing(img.alt) /\ alt_clean(img.alt) \in redundant_words)

short_alt_of(images) ==
    Filter(images, LAMBDA img :
        /\ ~alt_missing(img.alt)
        /\ alt_clean(img.alt) \notin redundant_words
        /\ (Len(alt_clean(img.alt)) < 3 \/ alt_clean(img.alt) \in non_descriptive))

\* alt_values, and the set comprehension over Counter(alt_values)
duplicate_values_of(images) ==
    LET present == Filter(images, LAMBDA img : ~alt_missing(img.alt))
    IN  {alt_clean(present[i].alt) : i \in {j \in DOMAIN present :
            \E k \in DOMAIN present : k # j /\ alt_clean(present[k].alt) = alt_clean(present[j].alt)}}

\* the orders in which list(duplicate_values) can enumerate the set
Orders(S) == {q \in [1..Cardinality(S) -> S] : Range(q) = S}

ImgSnippets(s) == [i \in DOMAIN s |-> "<img>"]

\* analyze_images with the status decided by the duplicates first
analyze_images_duplicates_first(media, dup_order) ==
    LET images == Imgs(media)
        total == Len(images)
        missing_alt == missing_alt_of(images)
        redundant_alt == redundant_alt_of(images)
        short_alt == short_alt_of(images)
        issues == (IF missing_alt # <<>> THEN 1 ELSE 0) + (IF redundant_alt # <<>> THEN 1 ELSE 0)
                  + (IF short_alt # <<>> THEN 1 ELSE 0) + (IF dup_order # <<>> THEN 1 ELSE 0)
    IN  IF total = 0
        THEN Ret(Result("warning", "No <img> tags found on the page.", Null,
                        "If your page uses images, include alt attributes"))
        ELSE IF issues = 0
        THEN Ret(Result("passed", "All images have clear, descriptive 'alt' attributes.",
                        List(TakeMore(ImgSnippets(images), 3, "...")), "No changes needed."))
        ELSE Ret(Result(IF dup_order # <<>> THEN "failed" ELSE "warning",
                        "Issues detected with image alt attributes", Null,
                        "Ensure all images have descriptive, unique 'alt' text.")
                 @@ [missing_alt |-> TakeMore(ImgSnippets(missing_alt), 3, "..."),
                     redundant_alt |-> TakeMore(ImgSnippets(redundant_alt), 3, "..."),
                     short_alt |-> TakeMore(ImgSnippets(short_alt), 3, "..."),
                     duplicate_alt |-> TakeMore(dup_order, 5, <<".", ".", ".">>)])

\* dup_order: the order in which list(duplicate_values) enumerates the set
analyze_images(media, dup_order) ==
    LET images == Imgs(media)
        total == Len(images)
        missing_alt == missing_alt_of(images)
        redundant_alt == redundant_alt_of(images)
        short_alt == short_alt_of(images)
        issues == (IF missing_alt # <<>> THEN 1 ELSE 0) + (IF redundant_alt # <<>> THEN 1 ELSE 0)
                  + (IF short_alt # <<>> THEN 1 ELSE 0) + (IF dup_order # <<>> THEN 1 ELSE 0)
    IN  IF total = 0
        THEN Ret(Result("warning", "No <img> tags found on the page.", Null,
                        "If your page uses images, include alt attributes"))
        ELSE IF issues = 0
        THEN Ret(Result("passed", "All images have clear, descriptive 'alt' attributes.",
                        List(TakeMore(ImgSnippets(images), 3, "...")), "No changes needed."))
        ELSE Ret(Result(IF missing_alt # <<>> \/ redundant_alt # <<>> \/ short_alt # <<>>
                        THEN "warning" ELSE "failed",
                        "Issues detected with image alt attributes", Null,
                        "Ensure all images have descriptive, unique 'alt' text.")
                 @@ [missing_alt |-> TakeMore(ImgSnippets(missing_alt), 3, "..."),
                     redundant_alt |-> TakeMore(ImgSnippets(redundant_alt), 3, "..."),
                     short_alt |-> TakeMore(ImgSnippets(short_alt), 3, "..."),
                     duplicate_alt |-> TakeMore(dup_order, 5, <<".", ".", ".">>)])

analyze_lazy_loading(media) ==
    LET total == Len(media)
        missing_lazy == Filter(media, LAMBDA el : ~el.lazy)
        missing_count == Len(missing_lazy)
        snip(s) == [i \in DOMAIN s |-> "<el>..."]
    IN  IF total = 0
        THEN Ret(Result("warning", "No <img> or <iframe> elements found for lazy loading analysis.",
                        Null, "Use lazy loading"))
        ELSE IF missing_count = total
        THEN Ret(Result("failed", "None of the <img> or <iframe> elements use lazy loading.",
                        List(TakeMore(snip(missing_lazy), 3, "...")), "Add loading=lazy"))
        ELSE IF missing_count > 0
        THEN Ret(Result("warning", "Some image/iframe elements are missing loading=lazy.",
                        List(TakeMore(snip(missing_lazy), 3, "...")), "Add loading=lazy"))
        ELSE Ret(Result("passed", "All <img> and <iframe> elements use lazy loading.",
                        List(TakeMore(snip(media), 3, "...")), "No changes needed."))

\* The warning branch joins the first three tags and marks a truncation; the
\* failed branch parses as (joined + "\n...") if iframe_count > 3 else "".
check_iframe_usage(media, threshold) ==
    LET iframe_count == Len(Iframes(media))
        joined == IF iframe_count > 3 THEN "<iframe> x3 ..."
                  ELSE IF iframe_count = 3 THEN "<iframe> x3"
                  ELSE IF iframe_count = 2 THEN "<iframe> x2"
                  ELSE IF iframe_count = 1 THEN "<iframe> x1" ELSE ""
    IN  IF iframe_count = 0
        THEN Ret(Result("passed", "No iframes found on the page.", Null, "No action needed."))
        ELSE IF iframe_count <= threshold
        THEN Ret(Result("warning", "iframe(s) found. While acceptable, consider minimizing them",
                        List(<<joined>>), "Use iframes only when necessary."))
        ELSE Ret(Result("failed", "iframes detected, which can hurt SEO",
                        List(<<IF iframe_count > 3 THEN joined ELSE "">>), "Reduce iframe usage."))

\* og: for each of og:title, og:image, og:url, whether the document has the
\* meta tag ("absent", "empty" content, "content"); og_other / tw_other: the
\* further meta tags whose property starts with "og:" / whose name starts
\* with "twitter:", other than the description candidates
check_social_meta(metas, og, og_other, tw_other) ==
    LET og_count == og_other + CountIf(metas, LAMBDA m : m.sel = "property=og:description")
                    + Cardinality({q \in DOMAIN og : og[q] # "absent"})
        twitter_count == tw_other + CountIf(metas, LAMBDA m : m.sel = "name=twitter:description")
    IN  IF og_count > 0 /\ twitter_count > 0
        THEN Ret(Result("passed", "Both Open Graph and Twitter Card meta tags are present",
                        List(<<"Open Graph tags found / Twitter Card tags found">>), "No action needed."))
        ELSE IF og_count > 0 \/ twitter_count > 0
        THEN Ret(Result("warning", "Partial social meta tag support detected.",
                        List(<<"Open Graph tags found / Twitter Card tags found">>),
                        "Add missing meta tags"))
        ELSE Ret(Result("failed", "No social media meta tags detected.", Null,
                        "Add Open Graph and Twitter Card meta tags"))

\* schema = [microdata, json_ld]: the number of itemscope+itemtype elements,
\* and the application/ld+json scripts, each "schema" (a JSON object with
\* @context or @type), "other" (other JSON), "invalid" (JSONDecodeError) or
\* "empty" (tag.string is None: AttributeError, and the text is "").
analyze_schema_org(schema) ==
    LET valid_json_ld == Filter(schema.json_ld, LAMBDA k : k = "schema")
    IN  IF valid_json_ld # <<>> \/ schema.microdata > 0
        THEN Ret(Result("passed", "Schema.org structured data found",
                        List(<<IF valid_json_ld # <<>> THEN "{json-ld}" ELSE "<div itemscope>">>),
                        "No action needed."))
        ELSE IF schema.json_ld # <<>>
        THEN Ret(Result("warning", "Found JSON-LD tags, but none appear to contain valid Schema.org metadata.",
                        BareStr(IF schema.json_ld[1] = "empty" THEN "" ELSE "{json}"),
                        "Ensure your JSON-LD contains Schema.org-compliant fields"))
        ELSE Ret(Result("failed", "No Schema.org metadata found.", Null, "Add Schema.org metadata"))

\* assets: the external <script src> or stylesheet <link href> tags
analyze_minification(assets, asset_type) ==
    LET total_count == Len(assets)
        minified_count == CountIf(assets, LAMBDA x : x.minified)
        snippet == IF minified_count < total_count THEN List(<<"<unminified asset>">>) ELSE Null
    IN  IF total_count = 0
        THEN Ret(Result("warning", "No external files found to analyze for minification.", Null,
                        "Include external files"))
        ELSE IF minified_count = total_count
        THEN Ret(Result("passed", "All files are minified.", snippet, "No action needed."))
        ELSE IF 2 * minified_count >= total_count
        THEN Ret(Result("warning", "Some files are not minified.", snippet, "Minify remaining files"))
        ELSE Ret(Result("failed", "Most files are not optimized.", snippet, "Minify all your files"))

(***************************************************************************)
(* robots.txt.  robots = [result, status, lines]; lines are the lines of   *)
(* response.text.strip(), each [kind, arg, canon]:                         *)
(*   kind "user-agent": line.lower() starts with "user-agent:", arg is the *)
(*        agent; canon: the line contains the exact text "User-agent";     *)
(*   kind "disallow":   line.lower() starts with "disallow:", arg the path;*)
(*   kind "sitemap":    canon: the line contains the exact text "Sitemap:";*)
(*   kind "blank":      an empty line;  kind "other": anything else.       *)
(***************************************************************************)
LineText(l) ==
    CASE l.kind = "blank" -> ""
      [] l.kind = "user-agent" -> "User-agent: ..."
      [] l.kind = "disallow" -> "Disallow: ..."
      [] l.kind = "sitemap" -> "Sitemap: ..."
      [] OTHER -> "# ..."

\* directives[agent]: the Disallow values attributed to agent
RECURSIVE parse_robots_directives(_, _, _)
parse_robots_directives(lines, current_agent, agent) ==
    IF lines = <<>> THEN <<>>
    ELSE LET line == Head(lines)
         IN  IF line.kind = "user-agent"
             THEN parse_robots_directives(Tail(lines), line.arg, agent)
             ELSE IF current_agent # "" /\ line.kind = "disallow"
             THEN (IF current_agent = agent THEN <<line.arg>> ELSE <<>>)
                  \o parse_robots_directives(Tail(lines), current_agent, agent)
             ELSE parse_robots_directives(Tail(lines), current_agent, agent)

\* check_robots_txt without its except clause
check_robots_txt_uncaught(robots) ==
    IF robots.result \in RequestErrors
    THEN Raise(robots.result)
    ELSE IF robots.status = 404
    THEN Ret(Result("failed", "No robots.txt file was found.", List(<<"robots.txt not found">>),
                    "Create a robots.txt file"))
    ELSE Ret(Result("warning", "A robots.txt file was found.", List(<<"Status Code">>),
                    "Ensure that the file is accessible"))

check_robots_txt(robots) ==
    IF robots.result \in RequestErrors
    THEN Ret(Result("failed", ErrorDescription("robots", robots.result),
                    List(<<"robots.txt URL">>), "Check your server configuration"))
    ELSE LET lines == robots.lines
             snippet == List([i \in DOMAIN Take(lines, 6) |-> LineText(lines[i])])
             has_user_agent == \E i \in DOMAIN lines : lines[i].kind = "user-agent" /\ lines[i].canon
             has_disallow_all == "/" \in Range(parse_robots_directives(lines, "", "*"))
             has_sitemap == \E i \in DOMAIN lines : lines[i].kind = "sitemap" /\ lines[i].canon
         IN  IF robots.status = 200
             THEN IF ~has_user_agent
                  THEN Ret(Result("warning", "robots.txt file is accessible but contains no User-agent directives.",
                                  snippet, "Add at least one User-agent directive"))
                  ELSE IF has_disallow_all
                  THEN Ret(Result("warning", "A robots.txt file is found, but it blocks all bots with Disallow: /.",
                                  snippet, "Ensure this is intentional."))
                  ELSE IF has_sitemap
                  THEN Ret(Result("passed", "A valid robots.txt file was found.", snippet,
                                  "No action needed."))
                  ELSE Ret(Result("warning", "A valid robots.txt file was found. However, no Sitemap directive was found.",
                                  snippet, "Add a Sitemap line"))
             ELSE IF robots.status = 404
             THEN Ret(Result("failed", "No robots.txt file was found.", List(<<"robots.txt not found">>),
                             "Create a robots.txt file"))
             ELSE Ret(Result("warning", "A robots.txt file was found but returned another status code.",
                             List(<<"Status Code">>), "Ensure that the file is accessible"))

(***************************************************************************)
(* analyze_links.  An anchor is [href, text]; href is [kind, host, path]   *)
(* with kind "none" (no href attribute), "empty", "fragment", "mailto",    *)
(* "tel", "javascript", "blank" (only whitespace), "relative" or           *)
(* "absolute".  A resolved URL is [host, path].                            *)
(***************************************************************************)
BaseHost == "site"

\* `not href or href.strip().startswith(("#", "mailto:", "tel:", "javascript:"))`
Skipped(a) == a.href.kind \in {"none", "empty", "fragment", "mailto", "tel", "javascript"}

\* urljoin(base_url, href.strip())
full_url_of(base, a) ==
    CASE a.href.kind = "absolute" -> [host |-> a.href.host, path |-> a.href.path]
      [] a.href.kind = "relative" -> [host |-> base.host, path |-> a.href.path]
      [] OTHER -> [host |-> base.host, path |-> base.path]

\* a.get_text(strip=True) or "[No anchor text]"
anchor_text_of(a) == IF a.text = "" THEN "[No anchor text]" ELSE a.text

\* the loop over a_tags: urls_to_check before any probe
RECURSIVE urls_to_check_of(_, _)
urls_to_check_of(base, a_tags) ==
    IF a_tags = <<>> THEN <<>>
    ELSE (IF Skipped(Head(a_tags)) THEN <<>>
          ELSE <<[url |-> full_url_of(base, Head(a_tags)),
                  anchor_text |-> anchor_text_of(Head(a_tags))]>>)
         \o urls_to_check_of(base, Tail(a_tags))

\* internal / external as the same loop pre-categorizes them: by host alone
RECURSIVE pre_internal(_, _)
pre_internal(base, urls_to_check) ==
    IF urls_to_check = <<>> THEN <<>>
    ELSE (IF Head(urls_to_check).url.host = base.host THEN <<Head(urls_to_check).url>> ELSE <<>>)
         \o pre_internal(base, Tail(urls_to_check))

RECURSIVE pre_external(_, _)
pre_external(base, urls_to_check) ==
    IF urls_to_check = <<>> THEN <<>>
    ELSE (IF Head(urls_to_check).url.host # base.host THEN <<Head(urls_to_check).url>> ELSE <<>>)
         \o pre_external(base, Tail(urls_to_check))

\* check_limit without the cap
check_limit_uncapped(urls_to_check) == Len(urls_to_check)

\* check_limit = min(20, len(urls_to_check))
check_limit_of(urls_to_check) == Min(check_limit_cap, Len(urls_to_check))

(***************************************************************************)
(* check_link.  The outcome of a request is "ok" (status < 400),           *)
(* "http_error" (400..599: raise_for_status raises HTTPError),             *)
(* "status_600" (a status raise_for_status lets through),                  *)
(* "request_exception" (any other requests.RequestException) or            *)
(* "other_exception" (an exception that is not a RequestException, caught  *)
(* by the outer `except Exception`).  Returns the verdict, whether the     *)
(* anchor text got the "(Error: ...)" suffix, and the requests sent.       *)
(***************************************************************************)
ProbeOutcomes == {"ok", "http_error", "status_600", "request_exception", "other_exception"}

LinkHead == [fn |-> "check_link", method |-> "HEAD", user_agent |-> FALSE, timeout |-> REQUEST_TIMEOUT]
LinkGet == [fn |-> "check_link", method |-> "GET", user_agent |-> FALSE, timeout |-> REQUEST_TIMEOUT]

check_link(head, get) ==
    IF head = "ok"
    THEN [status |-> "valid", error |-> FALSE, sent |-> <<LinkHead>>]
    ELSE IF head = "other_exception"
    THEN [status |-> "broken", error |-> TRUE, sent |-> <<LinkHead>>]
    ELSE IF get = "ok"
    THEN [status |-> "valid", error |-> FALSE, sent |-> <<LinkHead, LinkGet>>]
    ELSE IF get = "other_exception"
    THEN [status |-> "broken", error |-> TRUE, sent |-> <<LinkHead, LinkGet>>]
    ELSE [status |-> "broken", error |-> FALSE, sent |-> <<LinkHead, LinkGet>>]

\* list.remove(x): drops the first occurrence
RECURSIVE RemoveFirst(_, _)
RemoveFirst(s, x) ==
    IF s = <<>> THEN <<>>
    ELSE IF Head(s) = x THEN Tail(s)
    ELSE <<Head(s)>> \o RemoveFirst(Tail(s), x)

\* a result recorded as broken without the removal from its bucket
process_result_keeping(b, url_info, r) ==
    IF r.status # "broken" THEN b
    ELSE [internal |-> b.internal,
          external |-> b.external,
          broken |-> Append(b.broken, url_info.url),
          broken_details |-> Append(b.broken_details,
                                    [url |-> url_info.url, anchor_text |-> url_info.anchor_text,
                                     error |-> r.error])]

\* the body of `for result in results` for one result
process_result(b, url_info, r) ==
    IF r.status # "broken" THEN b
    ELSE [internal |-> IF url_info.url \in Range(b.internal)
                       THEN RemoveFirst(b.internal, url_info.url) ELSE b.internal,
          external |-> IF url_info.url \notin Range(b.internal) /\ url_info.url \in Range(b.external)
                       THEN RemoveFirst(b.external, url_info.url) ELSE b.external,
          broken |-> Append(b.broken, url_info.url),
          broken_details |-> Append(b.broken_details,
                                    [url |-> url_info.url, anchor_text |-> url_info.anchor_text,
                                     error |-> r.error])]

\* links[:5] + (["...and more"] if len(links) > 5 else [])
summarize_links(links) ==
    TakeMore([i \in DOMAIN links |-> "url"], 5, "...and more")

\* the report with the ratio compared by <= instead of <
links_report_strict(b) ==
    LET total_internal == Len(b.internal)
        total_external == Len(b.external)
        total_broken == Len(b.broken)
        total == total_internal + total_external + total_broken
    IN  IF total_broken > 0
        THEN Ret(Result("warning", "potentially broken link(s) detected.",
                        List(summarize_links(b.broken_details)), "Verify these links manually"))
        ELSE IF total > 0
        THEN IF 10 * total_internal <= 4 * total
             THEN Ret(Result("warning", "Low internal link ratio", List(summarize_links(b.internal)),
                             "Add more internal links"))
             ELSE Ret(Result("passed", "Healthy link profile.",
                             List(summarize_links(b.internal \o b.external)), "No issues."))
        ELSE Ret(Result("failed", "No usable links found after filtering out anchors and invalid URLs.",
                        Null, "Add meaningful internal and external links"))

\* the report built from the buckets after the probes
links_report(b) ==
    LET total_internal == Len(b.internal)
        total_external == Len(b.external)
        total_broken == Len(b.broken)
        total == total_internal + total_external + total_broken
    IN  IF total_broken > 0
        THEN Ret(Result("warning", "potentially broken link(s) detected.",
                        List(summarize_links(b.broken_details)), "Verify these links manually"))
        ELSE IF total > 0
        THEN IF 10 * total_internal < 4 * total
             THEN Ret(Result("warning", "Low internal link ratio", List(summarize_links(b.internal)),
                             "Add more internal links"))
             ELSE Ret(Result("passed", "Healthy link profile.",
                             List(summarize_links(b.internal \o b.external)), "No issues."))
        ELSE Ret(Result("failed", "No usable links found after filtering out anchors and invalid URLs.",
                        Null, "Add meaningful internal and external links"))

NoLinksAtAll ==
    Ret(Result("failed", "No usable links found. A page should guide users through relevant pages.",
               Null, "Add meaningful internal and external links"))

\* the buckets after the first n probes; probes[i] = [head, get] is what the
\* network answers to the i-th check_link call
RECURSIVE buckets_after(_, _, _, _)
buckets_after(base, urls_to_check, probes, n) ==
    IF n = 0
    THEN [internal |-> pre_internal(base, urls_to_check),
          external |-> pre_external(base, urls_to_check),
          broken |-> <<>>, broken_details |-> <<>>]
    ELSE process_result(buckets_after(base, urls_to_check, probes, n - 1),
                        urls_to_check[n],
                        check_link(probes[n].head, probes[n].get))

RECURSIVE link_requests(_, _)
link_requests(probes, n) ==
    IF n = 0 THEN <<>>
    ELSE link_requests(probes, n - 1) \o check_link(probes[n].head, probes[n].get).sent

analyze_links(base, a_tags, probes) ==
    IF a_tags = <<>> THEN NoLinksAtAll
    ELSE LET urls_to_check == urls_to_check_of(base, a_tags)
         IN  links_report(buckets_after(base, urls_to_check, probes,
                                        check_limit_of(urls_to_check)))

(***************************************************************************)
(* calculate_seo_score.  data is the report as a sequence of               *)
(* [name, result] in insertion order.  `warnings` is the float the loop    *)
(* accumulates in steps of 0.5; the model keeps it in halves               *)
(* (warnings_halves = 2 * warnings).  round() is Python's: to the nearest  *)
(* integer, a tie to the even one.                                         *)
(***************************************************************************)
\* round(n / d) for n >= 0, d > 0
PyRound(n, d) ==
    LET q == n \div d
        r == n % d
    IN  IF 2 * r < d THEN q
        ELSE IF 2 * r > d THEN q + 1
        ELSE IF q % 2 = 0 THEN q ELSE q + 1

\* the counters after the loop `for key, value in data.items()`
RECURSIVE score_loop(_, _)
score_loop(d, acc) ==
    IF d = <<>> THEN acc
    ELSE LET value == Head(d).result
         IN  score_loop(Tail(d),
                IF value.status = "passed"
                THEN [acc EXCEPT !.passed_tests = @ + 1]
                ELSE IF value.status = "warning"
                THEN [acc EXCEPT !.warnings_halves = @ + 1]
                ELSE IF value.status = "failed"
                THEN [acc EXCEPT !.failed_tests = @ + 1]
                ELSE acc)

\* calculate_seo_score truncating the score instead of rounding it
calculate_seo_score_truncated(d) ==
    LET total_tests == Len(d)
        c == score_loop(d, [passed_tests |-> 0, warnings_halves |-> 0, failed_tests |-> 0])
    IN  [total_tests |-> total_tests,
         score |-> IF total_tests > 0
                   THEN ((2 * c.passed_tests + c.warnings_halves) * 100) \div (2 * total_tests)
                   ELSE 0,
         passed_tests |-> c.passed_tests,
         warnings_halves |-> c.warnings_halves,
         failed_tests |-> c.failed_tests]

calculate_seo_score(d) ==
    LET total_tests == Len(d)
        c == score_loop(d, [passed_tests |-> 0, warnings_halves |-> 0, failed_tests |-> 0])
    IN  [total_tests |-> total_tests,
         score |-> IF total_tests > 0
                   THEN PyRound((2 * c.passed_tests + c.warnings_halves) * 100, 2 * total_tests)
                   ELSE 0,
         passed_tests |-> c.passed_tests,
         warnings_halves |-> c.warnings_halves,
         failed_tests |-> c.failed_tests]

(***************************************************************************)
(* SEOCheckSerializer / SEOResultSerializer.  A CharField rejects a blank  *)
(* string; a ListField rejects anything that is not a list (a bare str     *)
(* included) and validates every item with its child CharField;            *)
(* code_snippet and how_to_fix allow None.                                 *)
(***************************************************************************)
CharFieldValid(s) == s # ""

ListFieldValid(snippet) ==
    /\ snippet.kind = "list"
    /\ \A i \in DOMAIN snippet.items : CharFieldValid(snippet.items[i])

SEOCheckSerializer_valid(r) ==
    /\ CharFieldValid(r.status)
    /\ CharFieldValid(r.description)
    /\ (r.code_snippet.kind = "null" \/ ListFieldValid(r.code_snippet))
    /\ CharFieldValid(r.how_to_fix)

SEOResultSerializer_valid(d) ==
    \A i \in DOMAIN d : SEOCheckSerializer_valid(d[i].result)

(***************************************************************************)
(* The sites a request can meet.  A site fixes the url parameter, the      *)
(* document behind it and what the server answers to every request of the  *)
(* analysis.  BaseSite is a well-formed page; Sites are the sites that     *)
(* differ from it in at most MaxDeviations features.                       *)
(***************************************************************************)
Chars(w) ==
    CASE w = "team" -> <<"T", "e", "a", "m">>
      [] w = "photo" -> <<" ", "P", "h", "o", "t", "o">>
      [] w = "x" -> <<"X">>
      [] w = "blank" -> <<" ", " ">>
      [] w = "logo" -> <<"l", "o", "g", "o">>
      [] w = "empty" -> <<>>
      [] w = "ab" -> <<"a", "b">>
      [] w = "pic" -> <<"p", "i", "c">>

Img(w, lazy) == [tag |-> "img", alt |-> IF w = "none" THEN NoAlt ELSE Chars(w), lazy |-> lazy]
Iframe(lazy) == [tag |-> "iframe", alt |-> NoAlt, lazy |-> lazy]

Meta(sel, len) == [sel |-> sel, len |-> len]
Line(kind, arg, canon) == [kind |-> kind, arg |-> arg, canon |-> canon]
Anchor(kind, host, path, text) ==
    [href |-> [kind |-> kind, host |-> host, path |-> path], text |-> text]
Probe(head, get) == [head |-> head, get |-> get]
Js(minified, deferred, in_head) == [minified |-> minified, deferred |-> deferred, in_head |-> in_head]
Css(minified) == [minified |-> minified]

BaseSite ==
    [url |-> [kind |-> "absolute", scheme |-> "https", host |-> BaseHost, path |-> "/", issues |-> 0],
     fetch |-> [result |-> "response", status |-> 200],
     html |-> [bytes |-> 50 * 1024, chars |-> 50 * 1024],
     title |-> [present |-> TRUE, len |-> 45, dash |-> 0, pipe |-> 1],
     metas |-> <<Meta("name=description", 100)>>,
     headings |-> <<1, 2, 3>>,
     head |-> TRUE,
     fav |-> [ms_tile |-> FALSE, icons |-> <<[href |-> TRUE, in_head |-> TRUE]>>],
     canonical |-> [present |-> TRUE, href |-> "absolute", in_head |-> TRUE],
     robots_meta |-> <<>>,
     viewport |-> [found |-> "soup", width_ok |-> TRUE, scale_ok |-> TRUE],
     js |-> <<Js(TRUE, TRUE, TRUE)>>,
     css |-> <<Css(TRUE)>>,
     styles |-> 0,
     amp |-> TRUE,
     redirect |-> [result |-> "response", final_https |-> TRUE],
     notfound |-> [result |-> "response", status |-> 404, custom |-> TRUE],
     compression |-> [result |-> "response", br |-> TRUE, gzip |-> FALSE],
     media |-> <<Img("team", TRUE)>>,
     iframe_threshold |-> 3,
     og |-> [q \in {"og:title", "og:image", "og:url"} |-> "absent"],
     og_other |-> 1,
     tw_other |-> 1,
     schema |-> [microdata |-> 0, json_ld |-> <<"schema">>],
     robots |-> [result |-> "response", status |-> 200,
                 lines |-> <<Line("user-agent", "*", TRUE), Line("disallow", "/admin", TRUE),
                             Line("sitemap", "", TRUE)>>],
     anchors |-> <<Anchor("relative", "", "/a", "A"), Anchor("relative", "", "/b", ""),
                   Anchor("absolute", "other", "/x", "X")>>,
     probes |-> <<Probe("ok", "ok"), Probe("ok", "ok"), Probe("ok", "ok")>>]

Features == DOMAIN BaseSite

\* the other values of a feature
Variants(f) ==
    CASE f = "url" ->
            {[BaseSite.url EXCEPT !.kind = "missing"], [BaseSite.url EXCEPT !.kind = "empty"],
             [BaseSite.url EXCEPT !.kind = "malformed"], [BaseSite.url EXCEPT !.scheme = "http"],
             [BaseSite.url EXCEPT !.issues = 2, !.path = "/Blog/2024/"]}
      [] f = "fetch" ->
            {[result |-> "ConnectionError", status |-> 0], [result |-> "Timeout", status |-> 0],
             [result |-> "response", status |-> 404], [result |-> "response", status |-> 500],
             [result |-> "response", status |-> 300]}
      [] f = "html" ->
            {NoPage, [bytes |-> 100 * 1024, chars |-> 100 * 1024],
             [bytes |-> 300 * 1024, chars |-> 300 * 1024],
             [bytes |-> 120 * 1024, chars |-> 90 * 1024]}
      [] f = "title" ->
            {[BaseSite.title EXCEPT !.present = FALSE, !.len = 0], [BaseSite.title EXCEPT !.len = 0],
             [BaseSite.title EXCEPT !.len = 6], [BaseSite.title EXCEPT !.len = 61],
             [BaseSite.title EXCEPT !.dash = 2]}
      [] f = "metas" ->
            {<<>>, <<Meta("name=description", 0)>>, <<Meta("name=description", 20)>>,
             <<Meta("name=description", 161)>>,
             <<Meta("name=description", -1), Meta("name=description", 100)>>,
             <<Meta("name=twitter:description", 60), Meta("property=og:description", 70)>>}
      [] f = "headings" -> {<<>>, <<1, 2, 4>>, <<1, 1, 2>>, <<2, 3>>, <<1>>}
      [] f = "head" -> {FALSE}
      [] f = "fav" ->
            {[ms_tile |-> FALSE, icons |-> <<>>], [ms_tile |-> TRUE, icons |-> <<>>],
             [ms_tile |-> FALSE, icons |-> <<[href |-> FALSE, in_head |-> TRUE],
                                             [href |-> TRUE, in_head |-> FALSE]>>]}
      [] f = "canonical" ->
            {[present |-> FALSE, href |-> "none", in_head |-> FALSE],
             [present |-> TRUE, href |-> "none", in_head |-> TRUE],
             [present |-> TRUE, href |-> "relative", in_head |-> TRUE],
             [present |-> TRUE, href |-> "absolute", in_head |-> FALSE]}
      [] f = "robots_meta" -> {<<TRUE>>, <<FALSE>>, <<FALSE, FALSE>>}
      [] f = "viewport" ->
            {[found |-> "none", width_ok |-> FALSE, scale_ok |-> FALSE],
             [found |-> "soup", width_ok |-> TRUE, scale_ok |-> FALSE],
             [found |-> "regex", width_ok |-> TRUE, scale_ok |-> TRUE],
             [found |-> "regex", width_ok |-> FALSE, scale_ok |-> TRUE]}
      [] f = "js" ->
            {<<>>, <<Js(FALSE, TRUE, FALSE)>>, <<Js(TRUE, FALSE, TRUE), Js(FALSE, FALSE, TRUE)>>,
             <<Js(FALSE, FALSE, TRUE), Js(FALSE, FALSE, TRUE), Js(TRUE, FALSE, TRUE)>>}
      [] f = "css" ->
            {<<>>, <<Css(FALSE)>>, <<Css(TRUE), Css(TRUE), Css(FALSE), Css(FALSE)>>}
      [] f = "styles" -> {4}
      [] f = "amp" -> {FALSE}
      [] f = "redirect" ->
            {[result |-> "response", final_https |-> FALSE],
             [result |-> "ConnectionError", final_https |-> FALSE],
             [result |-> "Timeout", final_https |-> FALSE]}
      [] f = "notfound" ->
            {[result |-> "response", status |-> 404, custom |-> FALSE],
             [result |-> "response", status |-> 200, custom |-> FALSE],
             [result |-> "response", status |-> 500, custom |-> FALSE],
             [result |-> "ConnectionError", status |-> 0, custom |-> FALSE],
             [result |-> "Timeout", status |-> 0, custom |-> FALSE]}
      [] f = "compression" ->
            {[result |-> "response", br |-> FALSE, gzip |-> TRUE],
             [result |-> "response", br |-> FALSE, gzip |-> FALSE],
             [result |-> "ConnectionError", br |-> FALSE, gzip |-> FALSE],
             [result |-> "Timeout", br |-> FALSE, gzip |-> FALSE]}
      [] f = "media" ->
            {<<>>, <<Img("none", TRUE)>>, <<Img("blank", FALSE), Img("photo", TRUE)>>,
             <<Img("x", FALSE)>>, <<Img("team", TRUE), Img("team", TRUE)>>,
             <<Img("team", TRUE), Img("team", TRUE), Img("logo", TRUE), Img("logo", TRUE)>>,
             <<Iframe(TRUE)>>, <<Iframe(FALSE), Iframe(FALSE), Iframe(FALSE), Iframe(FALSE)>>}
      [] f = "iframe_threshold" -> {}
      [] f = "og" ->
            {[q \in {"og:title", "og:image", "og:url"} |-> "content"],
             [q \in {"og:title", "og:image", "og:url"} |->
                 IF q = "og:title" THEN "empty" ELSE "content"],
             [q \in {"og:title", "og:image", "og:url"} |->
                 IF q = "og:title" THEN "content" ELSE "absent"]}
      [] f = "og_other" -> {0}
      [] f = "tw_other" -> {0}
      [] f = "schema" ->
            {[microdata |-> 0, json_ld |-> <<>>], [microdata |-> 1, json_ld |-> <<>>],
             [microdata |-> 0, json_ld |-> <<"other">>], [microdata |-> 0, json_ld |-> <<"invalid">>],
             [microdata |-> 0, json_ld |-> <<"empty", "schema">>],
             [microdata |-> 0, json_ld |-> <<"empty">>]}
      [] f = "robots" ->
            {[BaseSite.robots EXCEPT !.status = 404, !.lines = <<Line("other", "", FALSE)>>],
             [BaseSite.robots EXCEPT !.status = 503, !.lines = <<>>],
             [BaseSite.robots EXCEPT !.result = "ConnectionError"],
             [BaseSite.robots EXCEPT !.result = "Timeout"],
             [BaseSite.robots EXCEPT !.lines = <<>>],
             [BaseSite.robots EXCEPT !.lines = <<Line("user-agent", "*", FALSE),
                                                 Line("sitemap", "", TRUE)>>],
             [BaseSite.robots EXCEPT !.lines = <<Line("user-agent", "*", TRUE),
                                                 Line("disallow", "/", TRUE),
                                                 Line("sitemap", "", TRUE)>>],
             [BaseSite.robots EXCEPT !.lines = <<Line("user-agent", "*", TRUE),
                                                 Line("disallow", "", TRUE)>>],
             [BaseSite.robots EXCEPT !.lines = <<Line("user-agent", "*", TRUE),
                                                 Line("disallow", "", TRUE),
                                                 Line("blank", "", FALSE),
                                                 Line("sitemap", "", TRUE)>>]}
      [] f = "anchors" ->
            {<<>>, <<Anchor("fragment", "", "", "Top"), Anchor("none", "", "", "")>>,
             <<Anchor("absolute", "other", "/x", "X"), Anchor("absolute", "other", "/y", "Y"),
               Anchor("relative", "", "/a", "A")>>,
             <<Anchor("relative", "", "/a", "A"), Anchor("relative", "", "/a", "again"),
               Anchor("blank", "", "", "self")>>}
      [] f = "probes" ->
            {<<Probe("http_error", "http_error"), Probe("ok", "ok"), Probe("ok", "ok")>>,
             <<Probe("request_exception", "ok"), Probe("ok", "ok"), Probe("ok", "ok")>>,
             <<Probe("ok", "ok"), Probe("ok", "ok"), Probe("status_600", "request_exception")>>,
             <<Probe("other_exception", "ok"), Probe("ok", "ok"), Probe("ok", "ok")>>}

RECURSIVE SitesWithin(_)
SitesWithin(k) ==
    IF k = 0 THEN {BaseSite}
    ELSE LET prev == SitesWithin(k - 1)
         IN  prev \cup UNION {UNION {{[s EXCEPT ![f] = v] : v \in Variants(f)} : f \in Features}
                                : s \in prev}

Sites == SitesWithin(MaxDeviations)

(***************************************************************************)
(* analyze_url: the analyzers in the order of the assignments to checks.   *)
(***************************************************************************)
AnalyzerOrder ==
    <<"https", "title", "meta_description", "h1", "heading_structure", "analyze_html_size",
      "keywords", "check_favicon", "canonical", "noindex", "mobile_friendly", "page_speed",
      "url_structure", "check_amp", "check_http_redirect", "check_404_page",
      "check_text_compression", "check_iframe_usage", "images", "lazy_loading", "social_tags",
      "schema_org", "analyze_css", "analyze_js", "robots_txt", "links">>

AuxAnalyzers == {"robots_txt", "check_http_redirect", "check_404_page", "check_text_compression"}

LinkBase(url) == [host |-> url.host, path |-> url.path]

\* the call analyze_url makes for checks[name]
CallAnalyzer(name, s, f, dup_order) ==
    CASE name = "https" -> check_secure_connection(f.final_url)
      [] name = "title" -> check_title_tag(s.title)
      [] name = "meta_description" -> analyze_meta(s.metas)
      [] name = "h1" -> analyze_h1s(s.headings)
      [] name = "heading_structure" -> analyze_heading_structure(s.headings)
      [] name = "analyze_html_size" -> analyze_html_size(f.html)
      [] name = "keywords" -> analyze_keywords(TRUE)
      [] name = "check_favicon" -> check_favicon(s.head, s.fav)
      [] name = "canonical" -> check_canonical(s.head, s.canonical)
      [] name = "noindex" -> check_noindex(s.robots_meta)
      [] name = "mobile_friendly" -> check_viewport_meta(s.viewport, f.html)
      [] name = "page_speed" -> check_page_speed_indicators(s.js, s.css, s.styles, f.html)
      [] name = "url_structure" -> check_url_structure(f.final_url)
      [] name = "check_amp" -> check_amp(s.amp)
      [] name = "check_http_redirect" -> check_http_redirect(s.redirect)
      [] name = "check_404_page" -> check_404_page(s.notfound)
      [] name = "check_text_compression" -> check_text_compression(s.compression)
      [] name = "check_iframe_usage" -> check_iframe_usage(s.media, s.iframe_threshold)
      [] name = "images" -> analyze_images(s.media, dup_order)
      [] name = "lazy_loading" -> analyze_lazy_loading(s.media)
      [] name = "social_tags" -> check_social_meta(s.metas, s.og, s.og_other, s.tw_other)
      [] name = "schema_org" -> analyze_schema_org(s.schema)
      [] name = "analyze_css" -> analyze_minification(s.css, "css")
      [] name = "analyze_js" -> analyze_minification(s.js, "js")
      [] name = "robots_txt" -> check_robots_txt(s.robots)
      [] name = "links" -> analyze_links(LinkBase(f.final_url), s.anchors, s.probes)

\* the outbound requests that call issues
RequestsOf(name, s, f) ==
    CASE name = "robots_txt" ->
            <<[fn |-> "check_robots_txt", method |-> "GET", user_agent |-> FALSE,
               timeout |-> REQUEST_TIMEOUT]>>
      [] name = "check_http_redirect" ->
            <<[fn |-> "check_http_redirect", method |-> "GET", user_agent |-> FALSE,
               timeout |-> REQUEST_TIMEOUT]>>
      [] name = "check_404_page" ->
            <<[fn |-> "check_404_page", method |-> "GET", user_agent |-> FALSE,
               timeout |-> REQUEST_TIMEOUT]>>
      [] name = "check_text_compression" ->
            <<[fn |-> "check_text_compression", method |-> "GET", user_agent |-> FALSE,
               timeout |-> REQUEST_TIMEOUT]>>
      [] name = "links" ->
            link_requests(s.probes, check_limit_of(urls_to_check_of(LinkBase(f.final_url), s.anchors)))
      [] OTHER -> <<>>

\* The statements of analyze_url from `checks = {}` on, starting with the
\* i-th analyzer: an exception raised by a call leaves analyze_url at once.
RECURSIVE run_checks(_, _, _, _, _)
run_checks(s, f, dup_order, i, acc) ==
    IF i > Len(AnalyzerOrder) THEN acc
    ELSE LET name == AnalyzerOrder[i]
             out == CallAnalyzer(name, s, f, dup_order)
             called == [acc EXCEPT !.ran = Append(@, name),
                                   !.reqs = @ \o RequestsOf(name, s, f)]
         IN  IF out.exc # ""
             THEN [called EXCEPT !.raised = out.exc]
             ELSE run_checks(s, f, dup_order, i + 1,
                             [called EXCEPT !.checks = Append(@, [name |-> name, result |-> out.value])])

NoEnvelope == [status |-> "", checks |-> <<>>]
NoResponse == [code |-> 0, status |-> "", has_score |-> FALSE, has_data |-> FALSE]
NoSummary ==
    [total_tests |-> 0, score |-> 0, passed_tests |-> 0, warnings_halves |-> 0, failed_tests |-> 0]
NoSentiment == [pc |-> "off"]
NoLinks ==
    [pc |-> "off", a_tags |-> <<>>, urls_to_check |-> <<>>, i |-> 0, internal |-> <<>>, external |-> <<>>, broken |-> <<>>,
     broken_details |-> <<>>, probe |-> Probe("ok", "ok"), verdict |-> "", sent |-> <<>>, heads |-> 0, gets |-> 0,
     failures |-> 0, result |-> NoValue]

(***************************************************************************)
(* Spec: one request to SEOView.get.                                       *)
(***************************************************************************)
Init ==
    /\ site \in Sites
    /\ pc = "start"
    /\ fetched = [ok |-> FALSE, html |-> NoPage, final_url |-> BaseSite.url, sent |-> <<>>]
    /\ checks = <<>>
    /\ ran = <<>>
    /\ reqs = <<>>
    /\ raised = ""
    /\ res = NoEnvelope
    /\ http = NoResponse
    /\ data = <<>>
    /\ summary = NoSummary
    /\ lk = NoLinks
    /\ sa = NoSentiment

\* html, headers, final_url = fetch_page(url)
FetchPage ==
    /\ pc = "start"
    /\ fetched' = fetch_page(site)
    /\ reqs' = fetch_page(site).sent
    /\ pc' = "fetched"
    /\ UNCHANGED <<site, checks, ran, raised, res, http, data, summary, lk, sa>>

\* `if not html: return {...}`
ReturnError ==
    /\ pc = "fetched"
    /\ ~(fetched.ok /\ fetched.html.chars > 0)
    /\ res' = [status |-> "error", checks |-> <<>>]
    /\ pc' = "returned"
    /\ UNCHANGED <<site, fetched, checks, ran, reqs, raised, http, data, summary, lk, sa>>

\* the checks, and the return of the success envelope or the exception
RunChecks ==
    /\ pc = "fetched"
    /\ fetched.ok /\ fetched.html.chars > 0
    /\ \E dup_order \in Orders(duplicate_values_of(Imgs(site.media))) :
         LET acc == run_checks(site, fetched, dup_order, 1,
                               [checks |-> <<>>, ran |-> <<>>, reqs |-> reqs, raised |-> ""])
         IN  /\ checks' = acc.checks
             /\ ran' = acc.ran
             /\ reqs' = acc.reqs
             /\ raised' = acc.raised
             /\ IF acc.raised = ""
                THEN /\ res' = [status |-> "success", checks |-> acc.checks]
                     /\ pc' = "returned"
                ELSE /\ res' = res
                     /\ pc' = "raised"
    /\ UNCHANGED <<site, fetched, http, data, summary, lk, sa>>

\* `if res["status"] == "error": return Response(res, status=400)`
RespondError ==
    /\ pc = "returned"
    /\ res.status = "error"
    /\ http' = [code |-> 400, status |-> "error", has_score |-> FALSE, has_data |-> FALSE]
    /\ pc' = "done"
    /\ UNCHANGED <<site, fetched, checks, ran, reqs, raised, res, data, summary, lk, sa>>

\* calculate_seo_score, the serializer and the 200 or 400 it decides
Respond ==
    /\ pc = "returned"
    /\ res.status # "error"
    /\ summary' = calculate_seo_score(res.checks)
    /\ http' = IF SEOResultSerializer_valid(res.checks)
               THEN [code |-> 200, status |-> res.status, has_score |-> TRUE, has_data |-> TRUE]
               ELSE [code |-> 400, status |-> "", has_score |-> FALSE, has_data |-> FALSE]
    /\ pc' = "done"
    /\ UNCHANGED <<site, fetched, checks, ran, reqs, raised, res, data, lk, sa>>

\* an exception that leaves analyze_url leaves get() too: the framework
\* answers 500
RespondServerError ==
    /\ pc = "raised"
    /\ http' = [code |-> 500, status |-> "", has_score |-> FALSE, has_data |-> FALSE]
    /\ pc' = "done"
    /\ UNCHANGED <<site, fetched, checks, ran, reqs, raised, res, data, summary, lk, sa>>

Next ==
    \/ FetchPage
    \/ ReturnError
    \/ RunChecks
    \/ RespondError
    \/ Respond
    \/ RespondServerError

Spec == Init /\ [][Next]_vars

(***************************************************************************)
(* SpecTwice: analyze_url run a second time on the same site; data keeps   *)
(* the report of the first run.  list(duplicate_values) enumerates a set   *)
(* of str, whose order follows the interpreter's per-process string hash   *)
(* seed: each run draws its own order in RunChecks.                        *)
(***************************************************************************)
AnalyzeAgain ==
    /\ pc = "returned"
    /\ res.status = "success"
    /\ data = <<>>
    /\ data' = res.checks
    /\ pc' = "start"
    /\ fetched' = [ok |-> FALSE, html |-> NoPage, final_url |-> BaseSite.url, sent |-> <<>>]
    /\ checks' = <<>>
    /\ ran' = <<>>
    /\ reqs' = <<>>
    /\ raised' = ""
    /\ res' = NoEnvelope
    /\ UNCHANGED <<site, http, summary, lk, sa>>

NextTwice ==
    \/ FetchPage
    \/ ReturnError
    \/ RunChecks
    \/ AnalyzeAgain

SpecTwice == Init /\ [][NextTwice]_vars

(***************************************************************************)
(* SpecAnalyzers: one of check_title_tag, analyze_meta,                    *)
(* analyze_heading_structure, analyze_images, analyze_html_size,           *)
(* check_iframe_usage, check_robots_txt applied to one document.  pc       *)
(* names the analyzer; the document is BaseSite but for the part that      *)
(* analyzer reads, which ranges over the bounded documents below.          *)
(***************************************************************************)
TitleLengths == {0, 1, 29, 30, 55, 60, 61}

\* a separator takes three characters, and strip() leaves none at the ends
Titles ==
    {[present |-> FALSE, len |-> 0, dash |-> 0, pipe |-> 0]}
    \cup {ti \in [present : {TRUE}, len : TitleLengths, dash : 0..MaxSeparators,
                  pipe : 0..MaxSeparators] :
             ti.dash + ti.pipe = 0 \/ 3 * (ti.dash + ti.pipe) + 2 <= ti.len}

MetaLengths == {-1, 0, 49, 50, 100, 160, 161}

MetaTags == {Meta(CANDIDATE_SELECTORS[k], l) : k \in DOMAIN CANDIDATE_SELECTORS, l \in MetaLengths}

ImgTags == {Img(w, TRUE) : w \in {"none", "empty", "blank", "photo", "x", "ab", "team", "logo"}}

\* documents of n equal images, and documents in which every alt text of a
\* set is used by two images
AltWords == <<"photo", "x", "ab", "team", "logo", "pic">>

Paired(W) ==
    LET ws == SelectSeq(AltWords, LAMBDA w : w \in W)
    IN  [j \in 1..(2 * Len(ws)) |-> Img(ws[(j + 1) \div 2], TRUE)]

\* document sizes in bytes around the two limits
HtmlSizes ==
    {1, 100 * 1024 - 1, 100 * 1024, 100 * 1024 + 1, 300 * 1024 - 1, 300 * 1024, 300 * 1024 + 1}

\* the lines a robots.txt body is drawn from, and the status codes of its response
RobotsLines ==
    {Line("user-agent", "*", TRUE), Line("user-agent", "*", FALSE), Line("user-agent", "bot", TRUE),
     Line("disallow", "/", TRUE), Line("disallow", "/admin", TRUE), Line("disallow", "", TRUE),
     Line("sitemap", "", TRUE), Line("sitemap", "", FALSE), Line("other", "", FALSE)}
RobotsStatuses == {200, 403, 404, 503}

InitAnalyzers ==
    /\ \/ /\ pc = "title"
          /\ \E ti \in Titles : site = [BaseSite EXCEPT !.title = ti]
       \/ /\ pc = "meta_description"
          /\ \E n \in 0..MaxMetas : \E ms \in [1..n -> MetaTags] :
                site = [BaseSite EXCEPT !.metas = ms]
       \/ /\ pc = "heading_structure"
          /\ \E n \in 0..MaxHeadings : \E hs \in [1..n -> 1..6] :
                site = [BaseSite EXCEPT !.headings = hs]
       \/ /\ pc = "images"
          /\ \/ \E n \in 0..MaxImages : \E im \in [1..n -> ImgTags] :
                   site = [BaseSite EXCEPT !.media = im]
             \/ \E n \in 0..MaxRepeated : \E tag \in ImgTags :
                   site = [BaseSite EXCEPT !.media = [i \in 1..n |-> tag]]
             \/ \E W \in SUBSET Range(AltWords) :
                   /\ Cardinality(W) <= MaxDuplicated
                   /\ site = [BaseSite EXCEPT !.media = Paired(W)]
       \/ /\ pc = "analyze_html_size"
          /\ \E b \in HtmlSizes : site = [BaseSite EXCEPT !.html = [bytes |-> b, chars |-> b]]
       \/ /\ pc = "check_iframe_usage"
          /\ \E n \in 0..MaxIframes : \E th \in 0..MaxThreshold :
                site = [BaseSite EXCEPT !.media = [i \in 1..n |-> Iframe(TRUE)],
                                        !.iframe_threshold = th]
       \/ /\ pc = "robots_txt"
          /\ \/ \E e \in RequestErrors : site = [BaseSite EXCEPT !.robots.result = e]
             \/ \E st \in RobotsStatuses : \E n \in 0..MaxLines : \E ls \in [1..n -> RobotsLines] :
                   site = [BaseSite EXCEPT !.robots = [result |-> "response", status |-> st, lines |-> ls]]
    /\ fetched = [ok |-> TRUE, html |-> BaseSite.html, final_url |-> BaseSite.url, sent |-> <<>>]
    /\ checks = <<>>
    /\ ran = <<>>
    /\ reqs = <<>>
    /\ raised = ""
    /\ res = NoEnvelope
    /\ http = NoResponse
    /\ data = <<>>
    /\ summary = NoSummary
    /\ lk = NoLinks
    /\ sa = NoSentiment

\* the call returns its result or leaves by its exception
Called(name, out) ==
    /\ ran' = <<name>>
    /\ checks' = IF out.exc = "" THEN <<[name |-> name, result |-> out.value]>> ELSE <<>>
    /\ raised' = out.exc
    /\ pc' = "analyzed"
    /\ UNCHANGED <<site, fetched, reqs, res, http, data, summary, lk, sa>>

AnalyzeTitle == pc = "title" /\ Called("title", check_title_tag(site.title))

AnalyzeMeta == pc = "meta_description" /\ Called("meta_description", analyze_meta(site.metas))

AnalyzeHeadingStructure ==
    pc = "heading_structure" /\ Called("heading_structure", analyze_heading_structure(site.headings))

AnalyzeImages ==
    /\ pc = "images"
    /\ \E dup_order \in Orders(duplicate_values_of(Imgs(site.media))) :
          Called("images", analyze_images(site.media, dup_order))

AnalyzeHtmlSize ==
    pc = "analyze_html_size" /\ Called("analyze_html_size", analyze_html_size(site.html))

AnalyzeIframes ==
    /\ pc = "check_iframe_usage"
    /\ Called("check_iframe_usage", check_iframe_usage(site.media, site.iframe_threshold))

AnalyzeRobots == pc = "robots_txt" /\ Called("robots_txt", check_robots_txt(site.robots))

NextAnalyzers ==
    \/ AnalyzeTitle
    \/ AnalyzeMeta
    \/ AnalyzeHeadingStructure
    \/ AnalyzeImages
    \/ AnalyzeHtmlSize
    \/ AnalyzeIframes
    \/ AnalyzeRobots

SpecAnalyzers == InitAnalyzers /\ [][NextAnalyzers]_vars

(***************************************************************************)
(* SpecScore: calculate_seo_score applied to every report of at most       *)
(* MaxChecks results whose statuses are passed, warning or failed.         *)
(***************************************************************************)
ReportOf(sts) ==
    [i \in DOMAIN sts |->
        [name |-> AnalyzerOrder[i], result |-> Result(sts[i], "description", Null, "None")]]

InitScore ==
    /\ \E n \in 0..MaxChecks : \E sts \in [1..n -> Statuses] : data = ReportOf(sts)
    /\ pc = "score_start"
    /\ summary = NoSummary
    /\ site = BaseSite
    /\ fetched = [ok |-> FALSE, html |-> NoPage, final_url |-> BaseSite.url, sent |-> <<>>]
    /\ checks = <<>>
    /\ ran = <<>>
    /\ reqs = <<>>
    /\ raised = ""
    /\ res = NoEnvelope
    /\ http = NoResponse
    /\ lk = NoLinks
    /\ sa = NoSentiment

Score ==
    /\ pc = "score_start"
    /\ summary' = calculate_seo_score(data)
    /\ pc' = "scored"
    /\ UNCHANGED <<site, fetched, checks, ran, reqs, raised, res, http, data, lk, sa>>

NextScore == Score

SpecScore == InitScore /\ [][NextScore]_vars

(***************************************************************************)
(* SpecLinks: one call of analyze_links, one check_link call per step.     *)
(* A page is a layout cut to n anchors.                                    *)
(***************************************************************************)
Layouts == {"internal", "mixed", "external", "two_fifths", "skips", "filtered"}

LayoutAnchor(layout, i) ==
    CASE layout = "internal" -> Anchor("relative", "", "/a", "A")
      [] layout = "mixed" ->
            IF i % 2 = 1 THEN Anchor("relative", "", "/a", "A")
            ELSE Anchor("absolute", "other", "/x", "")
      [] layout = "external" ->
            IF i % 3 = 0 THEN Anchor("absolute", BaseHost, "/a", "A")
            ELSE Anchor("absolute", "other", "/x", "X")
      [] layout = "two_fifths" ->
            IF i % 5 \in {1, 3} THEN Anchor("relative", "", "/a", "A")
            ELSE Anchor("absolute", "other", "/x", "X")
      [] layout = "skips" ->
            IF i = 1 THEN Anchor("fragment", "", "", "Top")
            ELSE IF i = 2 THEN Anchor("mailto", "", "", "Mail")
            ELSE IF i % 2 = 1 THEN Anchor("relative", "", "/a", "A")
            ELSE Anchor("blank", "", "", "self")
      [] layout = "filtered" ->
            Anchor(<<"fragment", "none", "empty", "tel", "javascript", "mailto">>[(i % 6) + 1],
                   "", "", "t")

\* short pages, pages around the cap on probed links, and the longest page
PageLengths == (0..3) \cup ((check_limit_cap - 1)..(check_limit_cap + 1)) \cup {MaxAnchors}

LinkPages == {[i \in 1..n |-> LayoutAnchor(layout, i)] : layout \in Layouts, n \in PageLengths}

LinksBase == LinkBase(BaseSite.url)

InitLinks ==
    /\ lk \in {[NoLinks EXCEPT !.pc = "start", !.a_tags = page] : page \in LinkPages}
    /\ sa = NoSentiment
    /\ pc = "links"
    /\ site = BaseSite
    /\ fetched = [ok |-> FALSE, html |-> NoPage, final_url |-> BaseSite.url, sent |-> <<>>]
    /\ checks = <<>>
    /\ ran = <<>>
    /\ reqs = <<>>
    /\ raised = ""
    /\ res = NoEnvelope
    /\ http = NoResponse
    /\ data = <<>>
    /\ summary = NoSummary

LinksRest == <<site, pc, fetched, checks, ran, reqs, raised, res, http, data, summary, sa>>

Buckets(l) ==
    [internal |-> l.internal, external |-> l.external, broken |-> l.broken,
     broken_details |-> l.broken_details]

\* `if not a_tags: return {...}`
LinksNoAnchors ==
    /\ lk.pc = "start"
    /\ lk.a_tags = <<>>
    /\ lk' = [lk EXCEPT !.pc = "done", !.result = NoLinksAtAll.value]
    /\ UNCHANGED LinksRest

\* the loop over a_tags
LinksCollect ==
    /\ lk.pc = "start"
    /\ lk.a_tags # <<>>
    /\ LET urls_to_check == urls_to_check_of(LinksBase, lk.a_tags)
       IN  lk' = [lk EXCEPT !.pc = "probe",
                            !.urls_to_check = urls_to_check,
                            !.internal = pre_internal(LinksBase, urls_to_check),
                            !.external = pre_external(LinksBase, urls_to_check)]
    /\ UNCHANGED LinksRest

\* check_link on the next of urls_to_check[:check_limit], and its result
\* processed; the network answers the HEAD, and the GET if one is sent
LinksProbe ==
    /\ lk.pc = "probe"
    /\ lk.i < check_limit_of(lk.urls_to_check)
    /\ \E head \in ProbeOutcomes :
         /\ head # "ok" => lk.failures < MaxFailures
         /\ \E get \in IF head \in {"ok", "other_exception"} THEN {"none"} ELSE ProbeOutcomes :
              LET r == check_link(head, get)
                  url_info == lk.urls_to_check[lk.i + 1]
                  b == process_result(Buckets(lk), url_info, r)
              IN  lk' = [lk EXCEPT !.i = @ + 1,
                                   !.internal = b.internal,
                                   !.external = b.external,
                                   !.broken = b.broken,
                                   !.broken_details = b.broken_details,
                                   !.probe = Probe(head, get),
                                   !.verdict = r.status,
                                   !.sent = r.sent,
                                   !.heads = @ + CountIf(r.sent, LAMBDA q : q.method = "HEAD"),
                                   !.gets = @ + CountIf(r.sent, LAMBDA q : q.method = "GET"),
                                   !.failures = IF head # "ok" THEN @ + 1 ELSE @]
    /\ UNCHANGED LinksRest

\* the statistics and the report
LinksReport ==
    /\ lk.pc = "probe"
    /\ lk.i = check_limit_of(lk.urls_to_check)
    /\ lk' = [lk EXCEPT !.pc = "done", !.result = links_report(Buckets(lk)).value]
    /\ UNCHANGED LinksRest

NextLinks ==
    \/ LinksNoAnchors
    \/ LinksCollect
    \/ LinksProbe
    \/ LinksReport

SpecLinks == InitLinks /\ [][NextLinks]_vars

(***************************************************************************)
(* The sentiment app (app/sentiment_api).  A text is a sequence of         *)
(* characters, NoText for None.  The trained model's answer for a sentence *)
(* is drawn from ModelOutcomes: one of the three labels, or RuntimeError   *)
(* when load_model fails.                                                  *)
(***************************************************************************)
NoText == <<"None">>
TextChars == {"a", ".", " "}
ModelOutcomes == {"positive", "negative", "neutral", "RuntimeError"}

\* SentimentAnalyzer.split_into_sentences
split_into_sentences(text) ==
    IF text = NoText \/ text = <<>> THEN <<>> ELSE <<Strip(text)>>

\* SentimentAnalyzer.analyze_sentiment, the model answering outcome
analyze_sentiment(text, outcome) ==
    IF text = NoText \/ text = <<>> \/ Strip(text) = <<>> THEN Ret("neutral")
    ELSE IF outcome = "RuntimeError" THEN Raise("RuntimeError")
    ELSE Ret(outcome)

\* the loop of process_comment from sentence i on
RECURSIVE sentence_analyses(_, _, _, _)
sentence_analyses(sentences, outcomes, i, acc) ==
    IF i > Len(sentences) THEN Ret(acc)
    ELSE LET sentiment == analyze_sentiment(sentences[i], outcomes[i])
         IN  IF sentiment.exc # "" THEN Raise(sentiment.exc)
             ELSE sentence_analyses(sentences, outcomes, i + 1,
                                    Append(acc, [sentence |-> sentences[i], sentiment |-> sentiment.value]))

\* SentimentAnalyzer.process_comment
process_comment(comment, outcomes) ==
    LET analyses == sentence_analyses(split_into_sentences(comment), outcomes, 1, <<>>)
    IN  IF analyses.exc # "" THEN analyses
        ELSE Ret([comment |-> comment, sentences |-> analyses.value])

(***************************************************************************)
(* The comment scraper.  A url is [kind, mentions]: kind "missing" (None), *)
(* "malformed" (urlparse finds no scheme or no netloc) or "absolute";      *)
(* mentions: the platforms whose domain occurs in the text of the url.     *)
(* A scraper result is the dict main returns: has_error says whether it    *)
(* has the key 'error'.  The platform scrapers catch their own exceptions  *)
(* and return []; the network's answer is the list of comment texts.       *)
(***************************************************************************)
Platforms == <<"tiktok", "instagram", "youtube">>

SentimentUrl(kind, mentions) == [kind |-> kind, mentions |-> mentions]

\* SocialMediaCommentScraper._validate_url
validate_url(url) == url.kind = "absolute"

\* SocialMediaCommentScraper._identify_platform: the first scraper, in the
\* order of self.scrapers, whose domain occurs in the url; "" for None
identify_platform(url) ==
    LET hits == {i \in DOMAIN Platforms : Platforms[i] \in url.mentions}
    IN  IF hits = {} THEN "" ELSE Platforms[CHOOSE i \in hits : \A j \in hits : i <= j]

\* SocialMediaCommentScraper.get_comments
get_comments(url, texts) ==
    IF ~validate_url(url)
    THEN [has_error |-> TRUE, error |-> "Invalid URL format", comments |-> <<>>, platform |-> ""]
    ELSE IF identify_platform(url) = ""
    THEN [has_error |-> TRUE, error |-> "Unsupported platform or invalid URL", comments |-> <<>>,
          platform |-> ""]
    ELSE [has_error |-> FALSE, error |-> "", comments |-> texts, platform |-> identify_platform(url)]

\* run_scraper: a new dict with the one key 'comments'
run_scraper(url, texts) ==
    [has_error |-> FALSE, error |-> "", comments |-> get_comments(url, texts).comments]

\* SentimentRequestSerializer.validate_comments
comments_valid(comments) == \A i \in DOMAIN comments : comments[i] # NoText

SentimentResponse(code, error, details, body) ==
    [code |-> code, error |-> error, details |-> details, body |-> body]

\* the loop `for comment in comments` of post from comment i on
RECURSIVE process_comments(_, _, _, _)
process_comments(comments, outcomes, i, results) ==
    IF i > Len(comments) THEN Ret(results)
    ELSE LET processed == process_comment(comments[i], outcomes[i])
         IN  IF processed.exc # "" THEN Raise(processed.exc)
             ELSE process_comments(comments, outcomes, i + 1, Append(results, processed.value))

\* the sentences of all results with the given sentiment
RECURSIVE count_sentiment(_, _)
count_sentiment(results, sentiment) ==
    IF results = <<>> THEN 0
    ELSE CountIf(Head(results).sentences, LAMBDA s : s.sentiment = sentiment)
         + count_sentiment(Tail(results), sentiment)

\* SentimentAnalysisView.post after run_scraper returned data
post(scraped, outcomes) ==
    IF scraped.has_error
    THEN SentimentResponse(400, "Scraper error", scraped.error, <<>>)
    ELSE IF ~comments_valid(scraped.comments)
    THEN SentimentResponse(400, "Invalid input", "comments", <<>>)
    ELSE IF scraped.comments = <<>>
    THEN SentimentResponse(200, "", "", <<>>)
    ELSE LET results == process_comments(scraped.comments, outcomes, 1, <<>>)
         IN  IF results.exc # ""
             THEN SentimentResponse(500, "Error processing comments", results.exc, <<>>)
             ELSE SentimentResponse(200, "", "",
                                    [comments |-> results.value,
                                     summary |-> [positive_count |-> count_sentiment(results.value, "positive"),
                                                  negative_count |-> count_sentiment(results.value, "negative"),
                                                  neutral_count |-> count_sentiment(results.value, "neutral")]])

(***************************************************************************)
(* RateLimiter.  Times are whole seconds.  acquire reads the clock into    *)
(* now, drops the recorded times that left the window, sleeps until the    *)
(* oldest remaining one leaves it when max_requests are recorded, and      *)
(* records now.                                                            *)
(***************************************************************************)
\* self.requests without the times outside the window
pruned(requests, now, time_window) == Filter(requests, LAMBDA req_time : now - req_time < time_window)

\* the sleep of acquire, 0 for none
sleep_time_of(requests, now, max_requests, time_window) ==
    IF Len(requests) >= max_requests /\ time_window - (now - requests[1]) > 0
    THEN time_window - (now - requests[1])
    ELSE 0

\* the variables of the SEO engine, which the sentiment app leaves as constructed
SeoVars == <<site, pc, fetched, checks, ran, reqs, raised, res, http, data, summary, lk>>

SeoIdle ==
    /\ site = BaseSite
    /\ pc = "off"
    /\ fetched = [ok |-> FALSE, html |-> NoPage, final_url |-> BaseSite.url, sent |-> <<>>]
    /\ checks = <<>>
    /\ ran = <<>>
    /\ reqs = <<>>
    /\ raised = ""
    /\ res = NoEnvelope
    /\ http = NoResponse
    /\ data = <<>>
    /\ summary = NoSummary
    /\ lk = NoLinks

(***************************************************************************)
(* SpecSentences: split_into_sentences or process_comment applied to one   *)
(* text of at most MaxTextLen characters, or to None.                      *)
(***************************************************************************)
InitSentences ==
    /\ SeoIdle
    /\ \E op \in {"split_into_sentences", "process_comment"} :
       \E n \in 0..MaxTextLen :
       \E text \in {NoText} \cup [1..n -> TextChars] :
          sa = [pc |-> op, text |-> text, out |-> Ret(<<>>)]

SplitIntoSentences ==
    /\ sa.pc = "split_into_sentences"
    /\ sa' = [sa EXCEPT !.pc = "split", !.out = Ret(split_into_sentences(sa.text))]
    /\ UNCHANGED SeoVars

ProcessComment ==
    /\ sa.pc = "process_comment"
    /\ \E outcome \in ModelOutcomes :
          sa' = [sa EXCEPT !.pc = "processed",
                           !.out = process_comment(sa.text,
                                                   [i \in DOMAIN split_into_sentences(sa.text) |-> outcome])]
    /\ UNCHANGED SeoVars

NextSentences == SplitIntoSentences \/ ProcessComment

SpecSentences == InitSentences /\ [][NextSentences]_vars

(***************************************************************************)
(* SpecSentimentView: one POST to SentimentAnalysisView.  The scraper's    *)
(* network answer is a list of at most MaxComments comment texts.          *)
(***************************************************************************)
SentimentUrls ==
    {SentimentUrl("missing", {})}
        \cup {SentimentUrl(kind, m) : kind \in {"malformed", "absolute"}, m \in SUBSET Range(Platforms)}

CommentTexts == {<<>>, <<"a", ".">>, <<"a", ".", " ", "a", ".">>, NoText}

InitSentimentView ==
    /\ SeoIdle
    /\ \E url \in SentimentUrls :
          sa = [pc |-> "post", url |-> url, data |-> run_scraper(SentimentUrl("missing", {}), <<>>),
                response |-> SentimentResponse(0, "", "", <<>>)]

\* data = run_scraper(url)
RunScraper ==
    /\ sa.pc = "post"
    /\ \E n \in 0..MaxComments : \E texts \in [1..n -> CommentTexts] :
          sa' = [sa EXCEPT !.pc = "scraped", !.data = run_scraper(sa.url, texts)]
    /\ UNCHANGED SeoVars

\* the rest of post
PostRespond ==
    /\ sa.pc = "scraped"
    /\ \E outcomes \in [DOMAIN sa.data.comments -> ModelOutcomes] :
          sa' = [sa EXCEPT !.pc = "responded",
                           !.response = post(sa.data,
                                             [i \in DOMAIN sa.data.comments |->
                                                [j \in DOMAIN split_into_sentences(sa.data.comments[i])
                                                    |-> outcomes[i]]])]
    /\ UNCHANGED SeoVars

NextSentimentView == RunScraper \/ PostRespond

SpecSentimentView == InitSentimentView /\ [][NextSentimentView]_vars

(***************************************************************************)
(* SpecRateLimiter: one RateLimiter(max_requests, time_window) and one     *)
(* caller that awaits each acquire() before the next, at any times.        *)
(* granted records the clock at each return of acquire.                    *)
(***************************************************************************)
InitRateLimiter ==
    /\ SeoIdle
    /\ \E max_requests \in 1..MaxRequests : \E time_window \in 1..MaxWindow :
          sa = [pc |-> "idle", max_requests |-> max_requests, time_window |-> time_window,
                clock |-> 0, now |-> 0, wake |-> 0, requests |-> <<>>, granted |-> <<>>]

\* time passes between two calls
Tick ==
    /\ sa.pc = "idle"
    /\ sa.clock < MaxClock
    /\ sa' = [sa EXCEPT !.clock = @ + 1]
    /\ UNCHANGED SeoVars

\* acquire() up to its return, or up to its await
Acquire ==
    /\ sa.pc = "idle"
    /\ Len(sa.granted) < MaxCalls
    /\ LET now == sa.clock
           requests == pruned(sa.requests, now, sa.time_window)
           sleep_time == sleep_time_of(requests, now, sa.max_requests, sa.time_window)
       IN  IF sleep_time > 0
           THEN sa' = [sa EXCEPT !.pc = "sleeping", !.now = now, !.requests = requests,
                                 !.wake = now + sleep_time]
           ELSE sa' = [sa EXCEPT !.now = now, !.requests = Append(requests, now),
                                 !.granted = Append(@, sa.clock)]
    /\ UNCHANGED SeoVars

\* asyncio.sleep(sleep_time) is over: self.requests.append(now), return
Wake ==
    /\ sa.pc = "sleeping"
    /\ sa' = [sa EXCEPT !.pc = "idle", !.clock = sa.wake, !.requests = Append(@, sa.now),
                        !.granted = Append(@, sa.wake)]
    /\ UNCHANGED SeoVars

NextRateLimiter == Tick \/ Acquire \/ Wake

SpecRateLimiter == InitRateLimiter /\ [][NextRateLimiter]_vars

(***************************************************************************)
(* Properties.                                                             *)
(***************************************************************************)
Entry(d, name) == d[CHOOSE i \in DOMAIN d : d[i].name = name].result
HasEntry(d, name) == \E i \in DOMAIN d : d[i].name = name
AnalysisOver == pc \in {"returned", "raised", "done"}
PageFetched == fetched.ok /\ fetched.html.chars > 0

\* C1: when an analyzer raises an unexpected exception during analyze_url,
\* its report entry is a failed Check Result, every other analyzer still runs
\* and has an entry, and analyze_url returns the success envelope.
C1_AnalyzerFailureIsIsolated ==
    (AnalysisOver /\ PageFetched) =>
        /\ raised = ""
        /\ res.status = "success"
        /\ \A i \in DOMAIN AnalyzerOrder :
              /\ AnalyzerOrder[i] \in Range(ran)
              /\ HasEntry(res.checks, AnalyzerOrder[i])
              /\ CallAnalyzer(AnalyzerOrder[i], site, fetched, <<>>).exc # ""
                    => Entry(res.checks, AnalyzerOrder[i]).status = "failed"

\* C2: when the page fetch fails (url missing, malformed url, network error,
\* timeout) analyze_url returns the error envelope with no check results, no
\* analyzer runs and no request other than the page fetch is issued.
FetchFails(s) ==
    \/ s.url.kind \in {"missing", "empty", "malformed"}
    \/ s.fetch.result \in RequestErrors

C3_ResponseCodes ==
    pc = "done" =>
        IF fetched.ok
        THEN http.code = 200 /\ http.has_score /\ http.has_data
        ELSE http.code = 400 /\ http.status = "error"

\* C4: for a report of N results with P passed and W warning, the score is
\* (P + 0.5 W) * 100 / N rounded to an integer (the nearest one; of two
\* equally near, the even one), and 0 for the empty report.
NumPassed(d) == CountIf(d, LAMBDA e : e.result.status = "passed")
NumWarning(d) == CountIf(d, LAMBDA e : e.result.status = "warning")
NumFailed(d) == CountIf(d, LAMBDA e : e.result.status = "failed")

C4_ScoreFormula ==
    pc = "scored" =>
        LET N == Len(data)
            exact2N == (2 * NumPassed(data) + NumWarning(data)) * 100
            diff == 2 * N * summary.score - exact2N
        IN  IF N = 0 THEN summary.score = 0
            ELSE /\ diff <= N /\ -diff <= N
                 /\ (diff = N \/ -diff = N) => summary.score % 2 = 0
                 /\ summary.total_tests = N

C4_Witness ==
    /\ pc = "scored"
    /\ Len(data) = 10
    /\ NumPassed(data) = 6 /\ NumWarning(data) = 2 /\ NumFailed(data) = 2
    /\ summary.score = 70

\* C5: the warnings field of the summary is the whole number of warning
\* results, so passed_tests + warnings + failed_tests = total_tests.
\* (warnings_halves is twice the field.)
C5_WarningsIsWholeCount ==
    pc = "scored" =>
        /\ summary.warnings_halves = 2 * NumWarning(data)
        /\ 2 * summary.passed_tests + summary.warnings_halves + 2 * summary.failed_tests
              = 2 * summary.total_tests

\* C6: every entry of the report has a status that is one of passed,
\* warning, failed, and a non-empty description.
C6_UniformResult ==
    /\ \A i \in DOMAIN checks :
          checks[i].result.status \in Statuses /\ checks[i].result.description # ""
    /\ \A i \in DOMAIN res.checks :
          res.checks[i].result.status \in Statuses /\ res.checks[i].result.description # ""

C6_Witness ==
    /\ pc = "returned"
    /\ res.status = "success"
    /\ Len(res.checks) = Len(AnalyzerOrder)
    /\ ~site.amp

\* C7: the code_snippet of every Check Result is None or a list of strings,
\* never a bare string, so every report passes the serializer.
C7_SnippetIsListOrNull ==
    /\ \A i \in DOMAIN checks : checks[i].result.code_snippet.kind \in {"null", "list"}
    /\ pc = "returned" /\ res.status = "success" => SEOResultSerializer_valid(res.checks)

\* C8: when the auxiliary request of the robots.txt, redirect, 404 or
\* compression analyzer fails with a network error or a timeout, that
\* analyzer returns a failed result with the error detail, no exception leaves
\* it, and the other analyzers' results are what they are without the failure.
AuxFeature(name) ==
    CASE name = "robots_txt" -> "robots"
      [] name = "check_http_redirect" -> "redirect"
      [] name = "check_404_page" -> "notfound"
      [] name = "check_text_compression" -> "compression"

AuxPrefix(name) ==
    CASE name = "robots_txt" -> "robots"
      [] name = "check_http_redirect" -> "redirect"
      [] name = "check_404_page" -> "404"
      [] name = "check_text_compression" -> "compression"

AuxFailed(s, name) == s[AuxFeature(name)].result \in RequestErrors

C8_AuxFailureIsLocal ==
    /\ raised # "" => ran[Len(ran)] \notin AuxAnalyzers
    /\ \A a \in AuxAnalyzers :
          (AuxFailed(site, a) /\ a \in Range(ran)) =>
              /\ HasEntry(checks, a)
              /\ Entry(checks, a).status = "failed"
              /\ Entry(checks, a).description
                    = ErrorDescription(AuxPrefix(a), site[AuxFeature(a)].result)
              /\ \A i \in DOMAIN checks :
                    checks[i].name # a =>
                        \E d \in Orders(duplicate_values_of(Imgs(site.media))) :
                            checks[i].result
                              = CallAnalyzer(checks[i].name,
                                             [site EXCEPT ![AuxFeature(a)] = BaseSite[AuxFeature(a)]],
                                             fetched, d).value

C8_Witness ==
    /\ pc = "returned"
    /\ res.status = "success"
    /\ site.robots.result = "Timeout"
    /\ Entry(res.checks, "robots_txt").status = "failed"
    /\ Len(res.checks) = Len(AnalyzerOrder)

\* C9: analyze_links probes only the first 20 usable anchors: the number of
\* probed URLs is min(20, usable anchors); an occurrence at position 21 or
\* later is never requested nor counted as broken, and stays in the bucket its
\* host puts it in.
Occurrences(s, x) == CountIf(s, LAMBDA y : y = x)
Urls(u) == [i \in DOMAIN u |-> u[i].url]
NumUsable(a_tags) == CountIf(a_tags, LAMBDA a : ~Skipped(a))

C9_ProbeCap ==
    LET urls == Urls(lk.urls_to_check)
        first == Take(urls, 20)
    IN  /\ lk.i <= 20
        /\ lk.i <= NumUsable(lk.a_tags)
        /\ lk.heads = lk.i
        /\ lk.gets <= lk.i
        /\ (lk.pc = "done" /\ lk.a_tags # <<>>) => lk.i = Min(20, NumUsable(lk.a_tags))
        /\ \A u \in Range(urls) :
              /\ Occurrences(lk.broken, u) <= Occurrences(Take(urls, lk.i), u)
              /\ Occurrences(lk.broken, u) <= Occurrences(first, u)
              /\ lk.pc \in {"probe", "done"} =>
                    /\ Occurrences(lk.internal \o lk.external, u)
                          = Occurrences(urls, u) - Occurrences(lk.broken, u)
                    /\ Occurrences(lk.internal, u) > 0 => u.host = LinksBase.host
                    /\ Occurrences(lk.external, u) > 0 => u.host # LinksBase.host

C9_Witness ==
    /\ lk.pc = "done"
    /\ Len(lk.a_tags) = 25
    /\ NumUsable(lk.a_tags) = 25
    /\ lk.i = 20
    /\ Len(lk.broken) = 2
    /\ Len(lk.internal) + Len(lk.external) = 23

\* C10: each probed link gets a HEAD first and a GET only if the HEAD raised
\* or returned a status >= 400; it is marked broken if and only if both the
\* HEAD and the GET failed; no probe sends more than one HEAD and one GET.
ProbeFailed(outcome) == outcome \notin {"ok", "none"}

C10_HeadThenGetFallback ==
    lk.i > 0 =>
        LET get_sent == \E k \in DOMAIN lk.sent : lk.sent[k].method = "GET"
        IN  /\ lk.sent[1].method = "HEAD"
            /\ CountIf(lk.sent, LAMBDA q : q.method = "HEAD") = 1
            /\ CountIf(lk.sent, LAMBDA q : q.method = "GET") <= 1
            /\ get_sent => ProbeFailed(lk.probe.head)
            /\ lk.verdict = "broken"
                  <=> (ProbeFailed(lk.probe.head) /\ get_sent /\ ProbeFailed(lk.probe.get))

\* C11: analyze_links is failed if and only if no anchor is left after the
\* filter on href; otherwise warning when a probed link is broken; otherwise
\* warning when internal / (internal + external + broken) < 0.4; otherwise
\* passed (a ratio of exactly 0.4 passes).
C11_LinksStatus ==
    lk.pc = "done" =>
        LET usable == NumUsable(lk.a_tags)
            I == Len(lk.internal)
            E == Len(lk.external)
            B == Len(lk.broken)
        IN  /\ lk.result.status = "failed" <=> usable = 0
            /\ usable > 0 =>
                  lk.result.status = IF B > 0 THEN "warning"
                                     ELSE IF 10 * I < 4 * (I + E + B) THEN "warning"
                                     ELSE "passed"

C11_Witness ==
    /\ lk.pc = "done"
    /\ Len(lk.broken) = 0
    /\ Len(lk.internal) > 0
    /\ 10 * Len(lk.internal) = 4 * (Len(lk.internal) + Len(lk.external))
    /\ lk.result.status = "passed"

\* C12: a page fetch whose final response has a status outside 200..299 is
\* a fetch failure: analyze_url returns the error envelope and no report, for
\* 3xx, 4xx and 5xx alike.
C12_NonSuccessStatusIsFailure ==
    (/\ pc \notin {"start", "fetched"}
     /\ site.url.kind = "absolute"
     /\ site.fetch.result = "response"
     /\ site.fetch.status \notin 200..299) =>
        /\ pc # "raised"
        /\ res.status = "error"
        /\ res.checks = <<>>
        /\ ran = <<>>

C14_SecondRunIdentical ==
    (pc = "returned" /\ res.status = "success" /\ data # <<>>) => res.checks = data

Analyzed(name) == pc = "analyzed" /\ ran = <<name>>

\* C15: analyze_heading_structure on a document without any h1-h6 element
\* returns a failed result that carries an empty heading order, a
\* missing-levels list and out_of_order = False.
C15_NoHeadingsIsFailed ==
    (Analyzed("heading_structure") /\ site.headings = <<>>) =>
        /\ raised = ""
        /\ checks # <<>>
        /\ checks[1].result.status = "failed"
        /\ {"heading_order", "missing_levels", "out_of_order"} \subseteq DOMAIN checks[1].result
        /\ checks[1].result.heading_order = <<>>
        /\ checks[1].result.out_of_order = FALSE

\* C16: for a non-empty sequence of heading levels, missing_levels is
\* exactly the levels between 1 and the highest used level that do not
\* occur, out_of_order is true exactly when some heading other than the
\* first is more than one level below the heading before it, and the status
\* is warning if either is the case and passed otherwise.
C16_HeadingStructure ==
    (Analyzed("heading_structure") /\ site.headings # <<>>) =>
        /\ raised = ""
        /\ LET r == checks[1].result
               h == site.headings
               used == {h[i] : i \in DOMAIN h}
               missing == {l \in 1..6 : l \notin used /\ \E u \in used : l < u}
               jump == \E i \in DOMAIN h : i > 1 /\ h[i] > h[i - 1] + 1
           IN  /\ {r.missing_levels[i] : i \in DOMAIN r.missing_levels}
                     = {HeadingName(l) : l \in missing}
               /\ Len(r.missing_levels) = Cardinality(missing)
               /\ r.out_of_order = jump
               /\ r.status = IF missing # {} \/ jump THEN "warning" ELSE "passed"

C16_Witness ==
    /\ Analyzed("heading_structure")
    /\ site.headings = <<1, 2, 4>>
    /\ checks[1].result.status = "warning"
    /\ checks[1].result.missing_levels = <<"h3">>
    /\ checks[1].result.out_of_order = TRUE

\* the status the content length decides
LengthStatus(L) == IF L < 50 \/ L > 160 THEN "warning" ELSE "passed"

\* the tag that wins by the stated rule: the selectors in priority order,
\* and for the first selector that has a tag with non-empty content, the
\* first such tag; 0 if no tag has content
WinningMeta(metas) ==
    LET with(k) == {i \in DOMAIN metas : metas[i].sel = CANDIDATE_SELECTORS[k] /\ metas[i].len > 0}
        ks == {k \in DOMAIN CANDIDATE_SELECTORS : with(k) # {}}
    IN  IF ks = {} THEN 0
        ELSE LET k == CHOOSE x \in ks : \A y \in ks : x <= y
             IN  CHOOSE i \in with(k) : \A j \in with(k) : i <= j

\* C17: whenever the document has a candidate description tag with
\* non-empty content, analyze_meta computes its result from the tag that wins
\* by priority (first tag with non-empty content): the status is the one the
\* content length decides, never the no-valid-content warning nor the
\* no-meta-description failure.
C17_FirstTagWithContentWins ==
    (Analyzed("meta_description") /\ WinningMeta(site.metas) # 0) =>
        /\ raised = ""
        /\ checks[1].result.description
              \notin {"Meta description tags found but none have a valid 'content' attribute.",
                       "No meta description was found for your page."}
        /\ checks[1].result.status = LengthStatus(site.metas[WinningMeta(site.metas)].len)

\* C18: analyze_meta is failed when the document has no candidate tag,
\* warning when candidates exist but none has non-empty content, and with a
\* selected content of length L warning when L < 50 or L > 160, passed when
\* 50 <= L <= 160.
C18_MetaStatus ==
    Analyzed("meta_description") =>
        /\ raised = ""
        /\ LET r == checks[1].result
               ms == site.metas
           IN  /\ ms = <<>> => r.status = "failed"
               /\ (ms # <<>> /\ \A i \in DOMAIN ms : ms[i].len <= 0) =>
                     /\ r.status = "warning"
                     /\ r.description
                           = "Meta description tags found but none have a valid 'content' attribute."
               /\ SelectMeta(ms) # 0 => r.status = LengthStatus(ms[SelectMeta(ms)].len)

C18_Witness ==
    /\ Analyzed("meta_description")
    /\ site.metas = <<Meta("name=description", 100)>>
    /\ checks[1].result.status = "passed"

\* C19: check_title_tag is failed when the title is missing or empty after
\* trimming; otherwise warning when the trimmed length is < 30 or > 60;
\* otherwise warning when the title holds more than one " - " or more than
\* one " | "; otherwise passed.  A title with text has the title tag as its
\* evidence.
C19_TitleStatus ==
    Analyzed("title") =>
        /\ raised = ""
        /\ LET r == checks[1].result
               ti == site.title
           IN  /\ r.status = IF ~ti.present \/ ti.len = 0 THEN "failed"
                             ELSE IF ti.len < 30 \/ ti.len > 60 THEN "warning"
                             ELSE IF ti.dash > 1 \/ ti.pipe > 1 THEN "warning"
                             ELSE "passed"
               /\ (ti.present /\ ti.len > 0) => r.code_snippet = List(<<"<title>">>)

C19_Witness ==
    /\ Analyzed("title")
    /\ site.title.len = 60
    /\ site.title.dash = 1
    /\ site.title.pipe = 0
    /\ checks[1].result.status = "passed"

\* C20: analyze_images puts each image in at most one category: missing
\* when alt is absent or blank; else redundant when the trimmed, lower-cased
\* alt is one of image, photo, pic, picture, img; else short when it has
\* fewer than 3 characters or is one of a, -, x; the duplicates are exactly
\* the normalised non-blank alt values found on more than one image.
BlankAlt(alt) == alt = NoAlt \/ \A i \in DOMAIN alt : alt[i] = " "
Normalised(alt) == LowerStr(Strip(alt))
Category(alt) ==
    IF BlankAlt(alt) THEN "missing"
    ELSE IF Normalised(alt) \in redundant_words THEN "redundant"
    ELSE IF Len(Normalised(alt)) < 3 \/ Normalised(alt) \in non_descriptive THEN "short"
    ELSE "fine"
Listed(n) == IF n > 3 THEN 4 ELSE n

C20_ImageCategories ==
    (Analyzed("images") /\ Imgs(site.media) # <<>>) =>
        /\ raised = ""
        /\ LET r == checks[1].result
               imgs == Imgs(site.media)
               count(c) == Cardinality({i \in DOMAIN imgs : Category(imgs[i].alt) = c})
               named == {i \in DOMAIN imgs : ~BlankAlt(imgs[i].alt)}
               dups == {Normalised(imgs[i].alt) : i \in
                           {j \in named : \E k \in named :
                               k # j /\ Normalised(imgs[k].alt) = Normalised(imgs[j].alt)}}
           IN  IF count("fine") = Len(imgs) /\ dups = {}
               THEN r.status = "passed"
               ELSE /\ r.status \in {"warning", "failed"}
                    /\ Len(r.missing_alt) = Listed(count("missing"))
                    /\ Len(r.redundant_alt) = Listed(count("redundant"))
                    /\ Len(r.short_alt) = Listed(count("short"))
                    /\ Cardinality(dups) <= 5 =>
                          /\ {r.duplicate_alt[i] : i \in DOMAIN r.duplicate_alt} = dups
                          /\ Len(r.duplicate_alt) = Cardinality(dups)

C20_Witness ==
    /\ Analyzed("images")
    /\ site.media = <<Img("empty", TRUE), Img("photo", TRUE)>>
    /\ checks[1].result.status = "warning"
    /\ Len(checks[1].result.missing_alt) = 1
    /\ Len(checks[1].result.redundant_alt) = 1
    /\ checks[1].result.short_alt = <<>>
    /\ checks[1].result.duplicate_alt = <<>>

\* the images of a category, and the alt values found on more than one image
InCategory(imgs, c) == {i \in DOMAIN imgs : Category(imgs[i].alt) = c}
DuplicatedAlts(imgs) ==
    LET named == {i \in DOMAIN imgs : ~BlankAlt(imgs[i].alt)}
    IN  {Normalised(imgs[i].alt) : i \in
            {j \in named : \E k \in named :
                k # j /\ Normalised(imgs[k].alt) = Normalised(imgs[j].alt)}}

\* C21: analyze_images is warning on a page without img; passed when no
\* image is missing, redundant or short and no alt value is duplicated;
\* warning when one of the missing, redundant, short categories is
\* non-empty, duplicates or not; failed exactly when duplicated alt values
\* are the only issue.
C21_ImagesStatus ==
    Analyzed("images") =>
        /\ raised = ""
        /\ LET imgs == Imgs(site.media)
               weak == InCategory(imgs, "missing") \cup InCategory(imgs, "redundant")
                       \cup InCategory(imgs, "short")
               dups == DuplicatedAlts(imgs)
           IN  checks[1].result.status
                 = IF imgs = <<>> THEN "warning"
                   ELSE IF weak # {} THEN "warning"
                   ELSE IF dups # {} THEN "failed"
                   ELSE "passed"

C21_Witness ==
    /\ Analyzed("images")
    /\ site.media = <<Img("team", TRUE), Img("team", TRUE)>>
    /\ checks[1].result.status = "failed"

\* C22: in an analyze_images result that reports issues, each of
\* missing_alt, redundant_alt, short_alt, duplicate_alt holds at most 3
\* examples of its category, followed by a truncation marker exactly when the
\* category has more than 3 members.
ExamplesOf(n) == IF n > 3 THEN 4 ELSE n

C22_ExampleLists ==
    (Analyzed("images") /\ raised = "" /\ "missing_alt" \in DOMAIN checks[1].result) =>
        LET r == checks[1].result
            imgs == Imgs(site.media)
            nm == Cardinality(InCategory(imgs, "missing"))
            nr == Cardinality(InCategory(imgs, "redundant"))
            ns == Cardinality(InCategory(imgs, "short"))
            nd == Cardinality(DuplicatedAlts(imgs))
            marked(list, mark) == list # <<>> /\ list[Len(list)] = mark
        IN  /\ Len(r.missing_alt) = ExamplesOf(nm) /\ (marked(r.missing_alt, "...") <=> nm > 3)
            /\ Len(r.redundant_alt) = ExamplesOf(nr) /\ (marked(r.redundant_alt, "...") <=> nr > 3)
            /\ Len(r.short_alt) = ExamplesOf(ns) /\ (marked(r.short_alt, "...") <=> ns > 3)
            /\ Len(r.duplicate_alt) = ExamplesOf(nd)
            /\ marked(r.duplicate_alt, <<".", ".", ".">>) <=> nd > 3

\* C23: analyze_html_size, the size being the UTF-8 byte length / 1024, is
\* passed below 100 KB, warning from 100 KB to 300 KB inclusive, and failed
\* only above 300 KB (exactly 300 KB is a warning).
C23_HtmlSizeStatus ==
    Analyzed("analyze_html_size") =>
        /\ raised = ""
        /\ checks[1].result.status
              = IF site.html.bytes < 100 * 1024 THEN "passed"
                ELSE IF site.html.bytes <= 300 * 1024 THEN "warning"
                ELSE "failed"

\* the first min(n, 3) iframe tags joined, with the truncation marker when
\* n > 3
IframeEvidence(n) ==
    IF n > 3 THEN "<iframe> x3 ..."
    ELSE IF n = 3 THEN "<iframe> x3"
    ELSE IF n = 2 THEN "<iframe> x2"
    ELSE "<iframe> x1"

\* C26: check_iframe_usage, for n iframes and threshold t >= 0, is passed
\* when n = 0, warning when 1 <= n <= t, failed when n > t, and every result
\* that is not passed has as evidence the first min(n, 3) iframe tags, with a
\* truncation marker exactly when n > 3.
C26_IframeUsage ==
    Analyzed("check_iframe_usage") =>
        /\ raised = ""
        /\ LET n == Len(Iframes(site.media))
               r == checks[1].result
           IN  /\ r.status = IF n = 0 THEN "passed"
                             ELSE IF n <= site.iframe_threshold THEN "warning"
                             ELSE "failed"
               /\ n > 0 => r.code_snippet = List(<<IframeEvidence(n)>>)

\* the state of a required OpenGraph property in the document
OgRequired == {"og:title", "og:description", "og:image", "og:url"}
OgState(s, q) ==
    IF q # "og:description" THEN s.og[q]
    ELSE LET tags == {i \in DOMAIN s.metas : s.metas[i].sel = "property=og:description"}
         IN  IF tags = {} THEN "absent"
             ELSE IF \E i \in tags : s.metas[i].len > 0 THEN "content"
             ELSE "empty"
OpenGraphStatus(s) ==
    IF \A q \in OgRequired : OgState(s, q) = "absent" THEN "failed"
    ELSE IF \A q \in OgRequired : OgState(s, q) = "content" THEN "passed"
    ELSE "warning"

\* C24: the report of every successful analysis has an OpenGraph check (an
\* entry of that name, or the entry of the one check that reads og: tags)
\* whose status is failed when none of og:title, og:description, og:image,
\* og:url is present, warning when one is missing or empty, passed when all
\* four are present and non-empty.
C24_OpenGraphCheck ==
    (pc = "returned" /\ res.status = "success") =>
        \E i \in DOMAIN res.checks :
            /\ res.checks[i].name \in {"opengraph", "social_tags"}
            /\ res.checks[i].result.status = OpenGraphStatus(site)

\* the directive lines of a robots.txt body, recognised as parse_robots_directives
\* recognises them (by the lower-cased start of the line)
RobotsBody == site.robots.lines
IsUserAgentLine(i) == RobotsBody[i].kind = "user-agent"
IsSitemapLine(i) == RobotsBody[i].kind = "sitemap"
\* line i is a Disallow line attributed to the most recent User-agent line j
AttributedTo(i, j) ==
    /\ j < i
    /\ IsUserAgentLine(j)
    /\ RobotsBody[i].kind = "disallow"
    /\ \A k \in (j + 1)..(i - 1) : ~IsUserAgentLine(k)
DisallowsAll ==
    \E i, j \in DOMAIN RobotsBody :
        AttributedTo(i, j) /\ RobotsBody[j].arg = "*" /\ RobotsBody[i].arg = "/"
RobotsStatusByResponse ==
    IF site.robots.result \in RequestErrors THEN "failed"
    ELSE IF site.robots.status = 404 THEN "failed"
    ELSE IF site.robots.status # 200 THEN "warning"
    ELSE IF ~\E i \in DOMAIN RobotsBody : IsUserAgentLine(i) THEN "warning"
    ELSE IF DisallowsAll THEN "warning"
    ELSE IF \E i \in DOMAIN RobotsBody : IsSitemapLine(i) THEN "passed"
    ELSE "warning"

\* C25: check_robots_txt is failed for a 404 and for a request exception,
\* warning for a 200 without a User-agent line, warning for a 200 whose rule
\* block of agent * disallows / (Sitemap or not), passed for any other 200
\* with a Sitemap directive and warning without one, and warning for any
\* other status code.
C25_RobotsStatusByResponse ==
    Analyzed("robots_txt") =>
        /\ raised = ""
        /\ checks[1].result.status = RobotsStatusByResponse

\* C28: during and after the link sub-scan every usable anchor occurrence is
\* in exactly one of the internal, external and broken buckets: the three
\* counts add up to the number of usable anchors, each occurrence recorded as
\* broken has left the bucket its URL was pre-classified into (internal for
\* the page's own host, external otherwise), and no count is negative.
PreClassified(u) == IF u.host = LinksBase.host THEN lk.internal ELSE lk.external
OtherBucket(u) == IF u.host = LinksBase.host THEN lk.external ELSE lk.internal

C28_BucketsPartitionUsable ==
    lk.pc \in {"probe", "done"} =>
        LET urls == Urls(lk.urls_to_check)
        IN  /\ Len(lk.internal) + Len(lk.external) + Len(lk.broken) = NumUsable(lk.a_tags)
            /\ Len(urls) = NumUsable(lk.a_tags)
            /\ \A u \in Range(urls) :
                  /\ Occurrences(lk.broken, u) <= Occurrences(urls, u)
                  /\ Occurrences(PreClassified(u), u) = Occurrences(urls, u) - Occurrences(lk.broken, u)
                  /\ Occurrences(OtherBucket(u), u) = 0
            /\ Range(lk.internal) \cup Range(lk.external) \cup Range(lk.broken) \subseteq Range(urls)

\* a URL that occurs several times, one occurrence broken and another still
\* in its bucket, next to a broken external link
C28_Witness ==
    /\ lk.pc = "done"
    /\ \E u \in Range(lk.broken) : Occurrences(lk.internal, u) >= 1
    /\ \E u \in Range(lk.broken) : u.host # LinksBase.host
    /\ Len(lk.broken) = 2

\* the sentences of a text as the tests of split_into_sentences read them:
\* a sentence ends at a full stop that whitespace follows, or at the end of
\* the text; sentences are stripped and empty ones dropped
Sentence(cur) == IF Strip(cur) = <<>> THEN <<>> ELSE <<Strip(cur)>>
RECURSIVE SentencesFrom(_, _)
SentencesFrom(rest, cur) ==
    IF rest = <<>> THEN Sentence(cur)
    ELSE IF IsSpace(Head(rest)) /\ cur # <<>> /\ cur[Len(cur)] = "."
    THEN Sentence(cur) \o SentencesFrom(Tail(rest), <<>>)
    ELSE SentencesFrom(Tail(rest), Append(cur, Head(rest)))
SentencesOf(text) == IF text = NoText THEN <<>> ELSE SentencesFrom(text, <<>>)

\* C27: split_into_sentences returns [] for an empty or None text and
\* otherwise the sentences of the text in order, one element per sentence;
\* process_comment returns one sentence analysis per sentence of the comment,
\* in order, and none for an empty comment.
C27_OneElementPerSentence ==
    /\ sa.pc = "split" => sa.out = Ret(SentencesOf(sa.text))
    /\ (sa.pc = "processed" /\ sa.out.exc = "") =>
          [i \in DOMAIN sa.out.value.sentences |-> sa.out.value.sentences[i].sentence]
              = SentencesOf(sa.text)

\* C29: a request whose url the scraper reports an error for (missing or
\* not well-formed, or of no supported platform) is answered 400 with error
\* 'Scraper error' and the scraper's error detail, never 200.
ScraperErrorDetail(url) ==
    IF url.kind # "absolute" THEN "Invalid URL format"
    ELSE IF url.mentions = {} THEN "Unsupported platform or invalid URL"
    ELSE ""

C29_ScraperErrorIs400 ==
    (sa.pc = "responded" /\ ScraperErrorDetail(sa.url) # "") =>
        /\ sa.response.code = 400
        /\ sa.response.error = "Scraper error"
        /\ sa.response.details = ScraperErrorDetail(sa.url)

\* C30: among the moments at which acquire() returned, at most max_requests
\* lie in any interval of time_window seconds (an interval [t, t + time_window)
\* that starts at one of the returns).
C30_AtMostMaxPerWindow ==
    \A i \in DOMAIN sa.granted :
        Cardinality({j \in DOMAIN sa.granted :
                        sa.granted[i] <= sa.granted[j] /\ sa.granted[j] < sa.granted[i] + sa.time_window})
            <= sa.max_requests

====
